---- MODULE Spec2Model ----
(***************************************************************************)
(* Model of the Stash Downloader backend script                            *)
(* (plugins/stash-downloader/scripts/download.py): the task dispatcher,    *)
(* the direct fetcher, the extraction downloader, and the result store.    *)
(*                                                                         *)
(* Spec      one invocation of main() running the download task            *)
(* SpecStore two processes sharing the result store at file level          *)
(* SpecPath  get_result_path over id strings                               *)
(* SpecMain  main() with every handler of the dispatch table               *)
(* SpecOutput, SpecParse, SpecClassify, SpecCommand, SpecFilename,         *)
(* SpecLines, SpecRead: one function of the script applied to an input     *)
(***************************************************************************)
EXTENDS Integers, Sequences, FiniteSets, TLC

(***************************************************************************)
(* Bounds of the model.                                                    *)
(***************************************************************************)
\* lines the extraction tool prints before it closes its output
MaxLines == 2
\* body chunks the HTTP response delivers
MaxChunks == 2
\* characters of an id handed to get_result_path
MaxIdLen == 3
\* save_result calls of the writing process, and load_result / delete_result
\* calls of the polling process, in SpecStore
MaxSaves == 2
MaxPolls == 2

(***************************************************************************)
(* Program constants.  The clock counts tenths of a second.                *)
(***************************************************************************)
\* progress_update_interval = 0.5
ProgressUpdateInterval == 5
\* time.time() at process start: seconds since 1970, far above the interval
\* (last_progress_update starts at 0, so the first update always passes)
ClockStart == 2 * ProgressUpdateInterval

None == "none"

\* time elapsed between two reads of time.time(): 0.1 s or 0.5 s
ClockSteps == {1, ProgressUpdateInterval}

(***************************************************************************)
(* Inputs of one invocation.                                               *)
(***************************************************************************)
DirectUrl      == "https://cdn.example.com/a/b/video.mp4"
UnreachableUrl == "https://unreachable.invalid/x.mp4"
PageUrl        == "https://example.com/watch?v=abc"
FallbackUrl    == "https://example.com/post/1"

Urls == {None, DirectUrl, UnreachableUrl, PageUrl}

\* is_direct_file_url on the URLs above: the path ends with ".mp4"
IsDirectFileUrl(url) == url \in {DirectUrl, UnreachableUrl}

\* the host of the URL cannot be reached: the GET raises a transport error and
\* the extraction tool exits non-zero
Unreachable(url) == url = UnreachableUrl

\* what is on disk in output_dir, oldest first (the order of os.path.getmtime)
OldFile     == "/data/old.mp4"
DirectFile  == "/data/video.mp4"
ToolFile    == "/data/clip.mp4"

(***************************************************************************)
(* State.                                                                  *)
(***************************************************************************)
VARIABLES
    args,          \* the argument mapping: url, fallback_url, result_id, progress_id
    dirCreatable,  \* os.makedirs(output_dir) succeeds
    storeWritable, \* open(result_path, "w") succeeds
    pc,            \* position of the invocation
    store,         \* result store: id -> <<>> (absent) or <<record>>
    progressLog,   \* every record handed to save_result("progress-<id>", ...)
    resultLog,     \* every record handed to save_result(result_id, ...)
    ioLog,         \* network requests and subprocess spawns, in order
    now,           \* wall clock
    lastProgressUpdate,
    totalSize,     \* content-length of the response
    downloaded,    \* bytes written by the direct fetcher
    dirFiles,      \* files of output_dir, oldest first
    ytdlpUrl,      \* the URL handed to download_video
    proc,          \* extraction subprocess: "none", "running", "hung", "eof",
                   \* "exited" (exit code 0), "failed" (another exit code)
    linesRead,     \* lines delivered by the subprocess so far
    outputTail,    \* the last line the subprocess printed (None: none)
    stdoutLines,   \* captured marker lines
    directFailed,  \* download_direct_file returned None
    dvStart,       \* Len(progressLog) at the entry of download_video (-1 before)
    filePath,      \* what download_video returned (None: no path)
    result,        \* the handler's result: <<>> until it returns, then <<record>>
    envelope,      \* the documents written to stdout, in order
    exitCode,      \* process exit code (-1 while running)
    \* a pure function applied to an input (SpecPath)
    probe,         \* the input
    answer,        \* <<>> until the function was applied, then <<its value>>
    \* the result store at file level (SpecStore)
    files,         \* path -> [exists, data]: the files of RESULT_DIR
    writer,        \* the process calling save_result
    poller,        \* the process calling load_result and delete_result
    settled,       \* path -> <<record>> of the last save that completed
                   \* undisturbed with no write or delete since, else <<>>
    \* main, from the input document to the handler (SpecMain)
    input,         \* the document read from standard input
    taskName,      \* the selector main computed (None before)
    handler        \* the handler main invoked (None: none)

vars == <<args, dirCreatable, storeWritable, pc, store, progressLog, resultLog,
          ioLog, now, lastProgressUpdate, totalSize, downloaded, dirFiles,
          ytdlpUrl, proc, linesRead, outputTail, stdoutLines, directFailed, dvStart,
          filePath, result, envelope, exitCode, probe, answer, files, writer,
          poller, settled, input, taskName, handler>>

\* the variables of the other specifications, which one invocation leaves alone
mainVars  == <<input, taskName, handler>>
pathVars  == <<probe, answer>>
storeVars == <<files, writer, poller, settled>>
taskVars  == <<args, dirCreatable, storeWritable, pc, store, progressLog,
               resultLog, ioLog, now, lastProgressUpdate, totalSize, downloaded,
               dirFiles, ytdlpUrl, proc, linesRead, outputTail, stdoutLines, directFailed,
               dvStart, filePath, result, envelope, exitCode>>

ProgressKey(progress_id) == "progress-" \o progress_id

ResultIds   == {None, "r1"}
ProgressIds == {None, "p1"}
StoreKeys   == {"r1", "r2", ProgressKey("p1")}

\* a JSON number where a string is expected (result_id: 5), and what Python's
\* truth test and isinstance(v, str) make of an argument value; None is also
\* what args.get returns for a missing key
NonStr == "<int 5>"
IsStr(v) == v \notin {None, NonStr}
Truthy(v) == v \notin {None, ""}

(***************************************************************************)
(* Result store (save_result, load_result) as whole-record operations.     *)
(* The file-level steps are modelled in SpecStore below.                   *)
(***************************************************************************)
\* (mutant) a save that fails removes the entry
SaveResult_FailureRemoves(st, id, data) ==
    IF ~IsStr(id) THEN st
    ELSE IF storeWritable THEN [st EXCEPT ![id] = <<data>>]
    ELSE [st EXCEPT ![id] = <<>>]

\* save_result: overwrite the id's entry; a storage failure is swallowed
SaveResult(st, id, data) ==
    IF storeWritable /\ IsStr(id) THEN [st EXCEPT ![id] = <<data>>] ELSE st

\* load_result: the record, or <<>> for "absent"
LoadResult(st, id) == st[id]

\* (mutant) a progress write for every update
DueForUpdate_Always(current_time, last_progress_update) == TRUE

\* (current_time - last_progress_update) >= progress_update_interval
DueForUpdate(current_time, last_progress_update) ==
    current_time - last_progress_update >= ProgressUpdateInterval

\* (mutant) the 'starting' record stamped with the initial
\* last_progress_update instead of the clock
InitialProgress_NoClock(total_size, t) ==
    [status |-> "starting", percentage |-> 0, downloaded_bytes |-> 0,
     total_bytes |-> total_size, last_updated |-> 0]

\* the 'starting' record of both downloaders
InitialProgress(total_size, t) ==
    [status |-> "starting", percentage |-> 0, downloaded_bytes |-> 0,
     total_bytes |-> total_size, last_updated |-> t]

\* the "if progress_id: save_result(f"progress-{progress_id}", rec)" idiom
WriteProgress(rec) ==
    IF Truthy(args.progress_id)
    THEN /\ store' = SaveResult(store, ProgressKey(args.progress_id), rec)
         /\ progressLog' = Append(progressLog, rec)
    ELSE UNCHANGED <<store, progressLog>>

(***************************************************************************)
(* write_output: the PluginOutput envelope of a handler result.            *)
(***************************************************************************)
WithoutKey(r, k) == [x \in DOMAIN r \ {k} |-> r[x]]

\* (mutant) the failure field is copied to error and left under output
WriteOutput_KeepsErrorInOutput(res) ==
    IF "result_error" \in DOMAIN res
    THEN [error |-> res.result_error, output |-> res]
    ELSE [output |-> res]

WriteOutput(res) ==
    IF "result_error" \in DOMAIN res
    THEN IF DOMAIN res \ {"result_error"} # {}
         THEN [error |-> res.result_error, output |-> WithoutKey(res, "result_error")]
         ELSE [error |-> res.result_error]
    ELSE [output |-> res]

\* a handler result that is no dict (json.loads of a delegate's output gave
\* null): a record with the reserved field "json"
JsonNull == [json |-> "null"]
IsMapping(v) == "json" \notin DOMAIN v

\* the document of write_output's except branch
FallbackDocument ==
    [error |-> "Failed to serialize output", output |-> [success |-> FALSE]]

\* write_output as a whole: '"result_error" in result' raises TypeError for
\* None, and the except branch writes the fallback document instead
WrittenDocument(res) ==
    IF IsMapping(res) THEN WriteOutput(res) ELSE FallbackDocument

(***************************************************************************)
(* The result store's paths: get_result_path.  Strings are sequences of    *)
(* one-character strings.                                                  *)
(***************************************************************************)
Letters == {"a","b","c","d","e","f","g","h","i","j","k","l","m","n","o","p","q",
            "r","s","t","u","v","w","x","y","z"}
Capitals == {"A","B","C","D","E","F","G","H","I","J","K","L","M","N","O","P","Q",
             "R","S","T","U","V","W","X","Y","Z"}
Digits == {"0","1","2","3","4","5","6","7","8","9"}

\* the characters re.sub(r"[^a-zA-Z0-9_-]", "", result_id) keeps
SafeIdChars == Letters \cup Capitals \cup Digits \cup {"_", "-"}

\* RESULT_DIR = os.path.join(PLUGIN_DIR, "results")
ResultDir == <<"/", "p", "l", "u", "g", "i", "n", "/", "r", "e", "s", "u", "l", "t", "s">>

JsonSuffix == <<".", "j", "s", "o", "n">>

\* os.path.join(dir, name): an absolute name replaces dir
PathJoin(dir, name) ==
    IF name # <<>> /\ name[1] = "/" THEN name ELSE dir \o <<"/">> \o name

\* (mutant) a character class that lets '.' and '/' through
Sanitize_KeepsDotSlash(id) ==
    SelectSeq(id, LAMBDA c : c \in SafeIdChars \cup {".", "/"})

\* safe_id = re.sub(r"[^a-zA-Z0-9_-]", "", result_id)
Sanitize(id) == SelectSeq(id, LAMBDA c : c \in SafeIdChars)

GetResultPath(id) == PathJoin(ResultDir, Sanitize(id) \o JsonSuffix)

\* the characters ids are drawn from, and the ids
IdChars == {"r", "Z", "7", "_", "-", ".", "/", "\\"}
AllIds == UNION {[1..n -> IdChars] : n \in 0..MaxIdLen}

(***************************************************************************)
(* Initial states.  Each specification starts its own part and leaves the  *)
(* other parts idle.                                                       *)
(***************************************************************************)
\* main() has read its input; the download handler is about to run
InitTask ==
    /\ args \in [url : Urls, fallback_url : {None, FallbackUrl},
                 result_id : ResultIds, progress_id : ProgressIds]
    /\ dirCreatable \in BOOLEAN
    /\ storeWritable \in BOOLEAN
    /\ pc = "task_download"
    /\ store = [k \in StoreKeys |-> <<>>]
    /\ progressLog = <<>>
    /\ resultLog = <<>>
    /\ ioLog = <<>>
    /\ now = ClockStart
    /\ lastProgressUpdate = 0
    /\ totalSize = 0
    /\ downloaded = 0
    /\ dirFiles \in {<<>>, <<OldFile>>}
    /\ ytdlpUrl = None
    /\ proc = "none"
    /\ linesRead = 0
    /\ outputTail = None
    /\ stdoutLines = <<>>
    /\ directFailed = FALSE
    /\ dvStart = -1
    /\ filePath = None
    /\ result = <<>>
    /\ envelope = <<>>
    /\ exitCode = -1

\* no invocation of the download task
TaskIdle ==
    /\ args = [url |-> None, fallback_url |-> None, result_id |-> None,
               progress_id |-> None]
    /\ dirCreatable = TRUE
    /\ storeWritable = TRUE
    /\ pc = "idle"
    /\ store = [k \in StoreKeys |-> <<>>]
    /\ progressLog = <<>>
    /\ resultLog = <<>>
    /\ ioLog = <<>>
    /\ now = ClockStart
    /\ lastProgressUpdate = 0
    /\ totalSize = 0
    /\ downloaded = 0
    /\ dirFiles = <<>>
    /\ ytdlpUrl = None
    /\ proc = "none"
    /\ linesRead = 0
    /\ outputTail = None
    /\ stdoutLines = <<>>
    /\ directFailed = FALSE
    /\ dvStart = -1
    /\ filePath = None
    /\ result = <<>>
    /\ envelope = <<>>
    /\ exitCode = -1

PathIdle == probe = <<>> /\ answer = <<>>

\* the keys main and the handlers read from an argument object
NoArgs == [mode |-> None, task |-> None, url |-> None, fallback_url |-> None,
           result_id |-> None, progress_id |-> None, proxy |-> None]

\* an input document: kind "object" or "other" (a list, a number, null);
\* top: its top-level keys; argsKind: its "args" key is "absent", an "object"
\* (inner: that object's keys) or "other"
NoInput == [kind |-> "object", top |-> NoArgs, argsKind |-> "absent", inner |-> NoArgs]

MainIdle == input = NoInput /\ taskName = None /\ handler = None

\* a network request or a subprocess spawn, with the number of progress
\* records written before it
IoEvent(op, target) == [op |-> op, target |-> target, writes |-> Len(progressLog)]

\* a run of the tool's version check or of its installer, with how it ended
ToolEvent(op, outcome) ==
    [op |-> op, target |-> None, writes |-> Len(progressLog), outcome |-> outcome]

\* (mutant) the handler returns without saving the result record
ReturnResult_NoSave(res) ==
    /\ result' = <<res>>
    /\ pc' = "write_output"
    /\ UNCHANGED <<store, resultLog>>

\* the handler returns res: "if result_id: save_result(result_id, result)"
ReturnResult(res) ==
    /\ result' = <<res>>
    /\ pc' = "write_output"
    /\ IF Truthy(args.result_id)
       THEN /\ store' = SaveResult(store, args.result_id, res)
            /\ resultLog' = Append(resultLog, res)
       ELSE UNCHANGED <<store, resultLog>>

\* an exception leaves the handler: control passes to main's except clause
Raise == pc' = "main_except"

FailureResult(msg) == [result_error |-> msg, success |-> FALSE]
SuccessResult(path) == [file_path |-> path, file_size |-> 1, success |-> TRUE]

(***************************************************************************)
(* task_download, entry: missing url, classification.                      *)
(***************************************************************************)
TaskDownload ==
    /\ pc = "task_download"
    /\ IF args.url = None
       THEN /\ ReturnResult(FailureResult("No URL provided"))
            /\ UNCHANGED ytdlpUrl
       ELSE /\ ytdlpUrl' = args.url
            /\ pc' = IF IsDirectFileUrl(args.url) THEN "task_direct" ELSE "check_ytdlp"
            /\ UNCHANGED <<store, resultLog, result>>
    /\ UNCHANGED <<mainVars, pathVars, storeVars, args, dirCreatable, storeWritable, progressLog, ioLog, now,
                   lastProgressUpdate, totalSize, downloaded, dirFiles, proc,
                   linesRead, outputTail, stdoutLines, directFailed, dvStart, filePath,
                   envelope, exitCode>>

(***************************************************************************)
(* download_direct_file.                                                   *)
(***************************************************************************)
\* (mutant) the fallback ignores fallback_url
YtdlpUrl_Original(url, fallback_url) == url

\* the URL handed to the extraction downloader after a failed direct fetch
YtdlpUrl(url, fallback_url) == IF fallback_url # None THEN fallback_url ELSE url

\* (mutant) a failed direct fetch is tried a second time
DirectFailed_Retry ==
    /\ directFailed' = TRUE
    /\ totalSize' = 0
    /\ downloaded' = 0
    /\ ytdlpUrl' = YtdlpUrl(args.url, args.fallback_url)
    /\ pc' = IF directFailed THEN "check_ytdlp" ELSE "task_direct"

\* download_direct_file returned None (its locals are gone): task_download
\* goes on to yt-dlp
DirectFailed ==
    /\ directFailed' = TRUE
    /\ totalSize' = 0
    /\ downloaded' = 0
    /\ ytdlpUrl' = YtdlpUrl(args.url, args.fallback_url)
    /\ pc' = "check_ytdlp"

\* a file is created or rewritten: it becomes the newest of the directory
Touch(dir, f) == Append(SelectSeq(dir, LAMBDA x : x # f), f)

\* content-length values: header missing (0) or one chunk announced
ContentLengths == {0, 1}

\* makedirs, filename, requests.get, raise_for_status, the 'starting' record,
\* open(output_path, "wb")
DirectGet ==
    /\ pc = "task_direct"
    /\ IF ~dirCreatable
       THEN /\ DirectFailed
            /\ UNCHANGED <<store, progressLog, ioLog, dirFiles>>
       ELSE /\ ioLog' = Append(ioLog, IoEvent("GET", args.url))
            /\ \E ok \in BOOLEAN, size \in ContentLengths :
                 /\ Unreachable(args.url) => ~ok
                 /\ IF ok
                    THEN /\ totalSize' = size
                         /\ WriteProgress(InitialProgress(size, now))
                         /\ dirFiles' = Touch(dirFiles, DirectFile)
                         /\ pc' = "direct_stream"
                         /\ downloaded' = 0
                         /\ UNCHANGED <<directFailed, ytdlpUrl>>
                    ELSE /\ DirectFailed
                         /\ UNCHANGED <<store, progressLog, dirFiles>>
    /\ UNCHANGED <<mainVars, pathVars, storeVars, args, dirCreatable, storeWritable, resultLog, now,
                   lastProgressUpdate, proc, linesRead, outputTail, stdoutLines, dvStart, filePath,
                   result, envelope, exitCode>>

\* one chunk of response.iter_content: write it, count it, throttled progress
DirectChunk ==
    /\ pc = "direct_stream"
    /\ downloaded < MaxChunks
    /\ \E dt \in ClockSteps :
         /\ now' = now + dt
         /\ downloaded' = downloaded + 1
         /\ dirFiles' = Touch(dirFiles, DirectFile)
         /\ IF /\ args.progress_id # None
               /\ totalSize > 0
               /\ DueForUpdate(now', lastProgressUpdate)
            THEN /\ WriteProgress([status |-> "downloading",
                                   percentage |-> (downloaded' * 100) \div totalSize,
                                   downloaded_bytes |-> downloaded',
                                   total_bytes |-> totalSize,
                                   last_updated |-> now'])
                 /\ lastProgressUpdate' = now'
            ELSE UNCHANGED <<store, progressLog, lastProgressUpdate>>
    /\ UNCHANGED <<mainVars, pathVars, storeVars, args, dirCreatable, storeWritable, pc, resultLog, ioLog, totalSize,
                   ytdlpUrl, proc, linesRead, outputTail, stdoutLines, directFailed, dvStart,
                   filePath, result, envelope, exitCode>>

\* an exception while streaming: caught, None returned, the file stays on disk
DirectStreamError ==
    /\ pc = "direct_stream"
    /\ DirectFailed
    /\ UNCHANGED <<mainVars, pathVars, storeVars, args, dirCreatable, storeWritable, store, progressLog, resultLog,
                   ioLog, now, lastProgressUpdate, dirFiles, proc, linesRead, outputTail,
                   stdoutLines, dvStart, filePath, result, envelope, exitCode>>

\* end of the body: output_path is returned; task_download saves and returns
\* the success result (os.path.getsize may raise)
DirectDone ==
    /\ pc = "direct_stream"
    /\ \E sizeOk \in BOOLEAN :
         IF sizeOk
         THEN ReturnResult(SuccessResult(DirectFile))
         ELSE Raise /\ UNCHANGED <<store, resultLog, result>>
    /\ UNCHANGED <<mainVars, pathVars, storeVars, args, dirCreatable, storeWritable, progressLog, ioLog, now,
                   lastProgressUpdate, totalSize, downloaded, dirFiles, ytdlpUrl,
                   proc, linesRead, outputTail, stdoutLines, directFailed, dvStart, filePath,
                   envelope, exitCode>>

(***************************************************************************)
(* check_ytdlp and install_ytdlp.                                          *)
(***************************************************************************)
ToolUnavailable == FailureResult("yt-dlp is not installed or not accessible")

\* subprocess.run(["yt-dlp", "--version"]): exit 0, exit non-zero,
\* FileNotFoundError, TimeoutExpired, another OSError
VersionOutcomes == {"ok", "nonzero", "missing", "timeout", "oserror"}

\* (mutant) a version check that times out also leads to the installer
CheckYtdlp_InstallsOnTimeout ==
    /\ pc = "check_ytdlp"
    /\ \E out \in VersionOutcomes :
         /\ ioLog' = Append(ioLog, ToolEvent("yt-dlp --version", out))
         /\ CASE out = "ok" -> pc' = "download_video" /\ UNCHANGED <<store, resultLog, result>>
              [] out \in {"missing", "timeout"} ->
                   pc' = "install_ytdlp" /\ UNCHANGED <<store, resultLog, result>>
              [] out = "oserror" -> Raise /\ UNCHANGED <<store, resultLog, result>>
              [] OTHER -> ReturnResult(ToolUnavailable)
    /\ UNCHANGED <<mainVars, pathVars, storeVars, args, dirCreatable, storeWritable, progressLog, now,
                   lastProgressUpdate, totalSize, downloaded, dirFiles, ytdlpUrl,
                   proc, linesRead, outputTail, stdoutLines, directFailed, dvStart, filePath,
                   envelope, exitCode>>

\* check_ytdlp up to the outcome of the first version check, and task_download
\* when it returned False
CheckYtdlp ==
    /\ pc = "check_ytdlp"
    /\ \E out \in VersionOutcomes :
         /\ ioLog' = Append(ioLog, ToolEvent("yt-dlp --version", out))
         /\ CASE out = "ok" -> pc' = "download_video" /\ UNCHANGED <<store, resultLog, result>>
              [] out = "missing" -> pc' = "install_ytdlp" /\ UNCHANGED <<store, resultLog, result>>
              [] out = "oserror" -> Raise /\ UNCHANGED <<store, resultLog, result>>
              [] OTHER -> ReturnResult(ToolUnavailable)
    /\ UNCHANGED <<mainVars, pathVars, storeVars, args, dirCreatable, storeWritable, progressLog, now,
                   lastProgressUpdate, totalSize, downloaded, dirFiles, ytdlpUrl,
                   proc, linesRead, outputTail, stdoutLines, directFailed, dvStart, filePath,
                   envelope, exitCode>>

\* install_ytdlp (pip install yt-dlp; any exception means "not installed"),
\* then the second version check, whose exceptions are all swallowed
InstallYtdlp ==
    /\ pc = "install_ytdlp"
    /\ \E installed \in BOOLEAN, recheck \in VersionOutcomes :
         /\ ioLog' = IF installed
                     THEN ioLog \o <<ToolEvent("pip install", "ok"),
                                     ToolEvent("yt-dlp --version", recheck)>>
                     ELSE Append(ioLog, ToolEvent("pip install", "failed"))
         /\ IF installed /\ recheck = "ok"
            THEN pc' = "download_video" /\ UNCHANGED <<store, resultLog, result>>
            ELSE ReturnResult(ToolUnavailable)
    /\ UNCHANGED <<mainVars, pathVars, storeVars, args, dirCreatable, storeWritable, progressLog, now,
                   lastProgressUpdate, totalSize, downloaded, dirFiles, ytdlpUrl,
                   proc, linesRead, outputTail, stdoutLines, directFailed, dvStart, filePath,
                   envelope, exitCode>>

(***************************************************************************)
(* download_video.                                                         *)
(***************************************************************************)
\* os.makedirs(output_dir) outside the try block, then the 'starting' record
DownloadVideo ==
    /\ pc = "download_video"
    /\ dvStart' = Len(progressLog)
    /\ IF ~dirCreatable
       THEN Raise /\ UNCHANGED <<store, progressLog>>
       ELSE /\ WriteProgress(InitialProgress(0, now))
            /\ pc' = "popen"
    /\ UNCHANGED <<mainVars, pathVars, storeVars, args, dirCreatable, storeWritable, resultLog, ioLog, now,
                   lastProgressUpdate, totalSize, downloaded, dirFiles, ytdlpUrl,
                   proc, linesRead, outputTail, stdoutLines, directFailed, filePath, result,
                   envelope, exitCode>>

\* subprocess.Popen(cmd, ...); an exception is caught by "except Exception"
Popen ==
    /\ pc = "popen"
    /\ ioLog' = Append(ioLog, IoEvent("yt-dlp", ytdlpUrl))
    /\ \E spawned \in BOOLEAN :
         IF spawned
         THEN /\ proc' = "running"
              /\ lastProgressUpdate' = 0
              /\ pc' = "read_output"
              /\ UNCHANGED <<store, progressLog, filePath>>
         ELSE /\ WriteProgress([status |-> "error", error |-> "spawn failed",
                                last_updated |-> now])
              /\ filePath' = None
              /\ pc' = "after_video"
              /\ UNCHANGED <<proc, lastProgressUpdate>>
    /\ UNCHANGED <<mainVars, pathVars, storeVars, args, dirCreatable, storeWritable, resultLog, now, totalSize,
                   downloaded, dirFiles, ytdlpUrl, linesRead, outputTail, stdoutLines,
                   directFailed, dvStart, result, envelope, exitCode>>

\* the lines the tool may print: a progress line (with what
\* parse_ytdlp_progress returns for it), a "[download]"/"[info]" line that is
\* no progress line, the marker line (the final path), another line that starts
\* with "/"; kind "path": the line starts with "/" (or has ":" as its second
\* character) and is appended to stdout_lines; hook: the line is the one
\* "--print after_move:filepath" prints
BogusPath == "/usr/lib/python3/warning"
OutputLines ==
    {[kind |-> "progress", text |-> "[download]  50.0% of 100.00MiB", hook |-> FALSE],
     [kind |-> "info",     text |-> "[info] Downloading 1 format(s)", hook |-> FALSE],
     [kind |-> "path",     text |-> ToolFile,                         hook |-> TRUE],
     [kind |-> "path",     text |-> BogusPath,                        hook |-> FALSE]}

\* parse_ytdlp_progress of the progress line above, in MiB
ParsedProgress == [percentage |-> 50, downloaded_bytes |-> 50, total_bytes |-> 100]

\* one logical line of the subprocess output is read and processed
ReadOutput ==
    /\ pc = "read_output"
    /\ proc = "running"
    /\ linesRead < MaxLines
    /\ \E line \in OutputLines, dt \in ClockSteps :
         \* the clock is read (current_time = time.time()) for these lines only
         /\ now' = IF line.kind \in {"progress", "info"} THEN now + dt ELSE now
         /\ linesRead' = linesRead + 1
         /\ outputTail' = line.text
         /\ stdoutLines' = IF line.kind = "path"
                           THEN Append(stdoutLines, line.text) ELSE stdoutLines
         /\ IF /\ line.kind \in {"progress", "info"}
               /\ args.progress_id # None
               /\ DueForUpdate(now', lastProgressUpdate)
            THEN /\ WriteProgress(
                      IF line.kind = "progress"
                      THEN [percentage |-> ParsedProgress.percentage,
                            downloaded_bytes |-> ParsedProgress.downloaded_bytes,
                            total_bytes |-> ParsedProgress.total_bytes,
                            status |-> "downloading", last_updated |-> now']
                      ELSE [status |-> "downloading", last_updated |-> now',
                            message |-> line.text])
                 /\ lastProgressUpdate' = now'
            ELSE UNCHANGED <<store, progressLog, lastProgressUpdate>>
    /\ UNCHANGED <<mainVars, pathVars, storeVars, args, dirCreatable, storeWritable, pc, resultLog, ioLog, totalSize,
                   downloaded, dirFiles, ytdlpUrl, proc, directFailed, dvStart,
                   filePath, result, envelope, exitCode>>

\* what the tool may print after its last line terminator
UnterminatedLines == {None, ToolFile}

\* process.stdout.read(256) returns b"": the tool closed its output.  The text
\* it printed after the last terminator (rest) is in output_buffer; the loop
\* ends without looking at it
ReadEof ==
    /\ pc = "read_output"
    /\ proc = "running"
    /\ proc' = "eof"
    /\ pc' = "wait"
    /\ \E rest \in UnterminatedLines :
         outputTail' = IF rest = None THEN outputTail ELSE rest
    /\ UNCHANGED <<mainVars, pathVars, storeVars, args, dirCreatable, storeWritable, store, progressLog, resultLog,
                   ioLog, now, lastProgressUpdate, totalSize, downloaded, dirFiles,
                   ytdlpUrl, linesRead, stdoutLines, directFailed, dvStart, filePath,
                   result, envelope, exitCode>>

\* the tool stalls: it prints nothing more, keeps its output open or, after
\* closing it, never exits
ProcHang ==
    /\ pc \in {"read_output", "wait"}
    /\ proc \in {"running", "eof"}
    /\ proc' = "hung"
    /\ UNCHANGED <<mainVars, pathVars, storeVars, args, dirCreatable, storeWritable, pc, store, progressLog,
                   resultLog, ioLog, now, lastProgressUpdate, totalSize, downloaded,
                   dirFiles, ytdlpUrl, linesRead, outputTail, stdoutLines, directFailed, dvStart,
                   filePath, result, envelope, exitCode>>

Last(seq) == seq[Len(seq)]
InDir(dir, f) == \E i \in 1..Len(dir) : dir[i] = f

\* (mutant) a successful download returns without its 'complete' record
WaitExit_NoCompleteWrite ==
    /\ pc = "wait"
    /\ proc = "eof"
    /\ \E rc \in {0, 1}, made \in BOOLEAN :
         /\ Unreachable(ytdlpUrl) => rc # 0 /\ ~made
         /\ dirFiles' = IF made THEN Touch(dirFiles, ToolFile) ELSE dirFiles
         /\ LET captured == IF stdoutLines # <<>> THEN Last(stdoutLines) ELSE None
                found == IF captured # None /\ InDir(dirFiles', captured)
                         THEN captured
                         ELSE IF dirFiles' # <<>> THEN Last(dirFiles') ELSE None
            IN  IF rc = 0 /\ found # None
                THEN /\ UNCHANGED <<store, progressLog>>
                     /\ filePath' = found
                ELSE /\ WriteProgress([status |-> "error", error |-> "Download failed",
                                       last_updated |-> now])
                     /\ filePath' = None
         /\ proc' = IF rc = 0 THEN "exited" ELSE "failed"
    /\ pc' = "after_video"
    /\ UNCHANGED <<mainVars, pathVars, storeVars, args, dirCreatable, storeWritable, resultLog, ioLog, now,
                   lastProgressUpdate, totalSize, downloaded, ytdlpUrl, linesRead, outputTail,
                   stdoutLines, directFailed, dvStart, result, envelope, exitCode>>

\* process.wait() returns; exit code 0: the captured path if it exists, else the
\* newest file of output_dir, else failure; non-zero exit code: failure
WaitExit ==
    /\ pc = "wait"
    /\ proc = "eof"
    /\ \E rc \in {0, 1}, made \in BOOLEAN :
         /\ Unreachable(ytdlpUrl) => rc # 0 /\ ~made
         /\ dirFiles' = IF made THEN Touch(dirFiles, ToolFile) ELSE dirFiles
         /\ LET captured == IF stdoutLines # <<>> THEN Last(stdoutLines) ELSE None
                found == IF captured # None /\ InDir(dirFiles', captured)
                         THEN captured
                         ELSE IF dirFiles' # <<>> THEN Last(dirFiles') ELSE None
            IN  IF rc = 0 /\ found # None
                THEN /\ WriteProgress([status |-> "complete", percentage |-> 100,
                                       file_path |-> found, last_updated |-> now])
                     /\ filePath' = found
                ELSE /\ WriteProgress([status |-> "error", error |-> "Download failed",
                                       last_updated |-> now])
                     /\ filePath' = None
         /\ proc' = IF rc = 0 THEN "exited" ELSE "failed"
    /\ pc' = "after_video"
    /\ UNCHANGED <<mainVars, pathVars, storeVars, args, dirCreatable, storeWritable, resultLog, ioLog, now,
                   lastProgressUpdate, totalSize, downloaded, ytdlpUrl, linesRead, outputTail,
                   stdoutLines, directFailed, dvStart, result, envelope, exitCode>>

\* (mutant) a result record that cannot be saved turns the result into a
\* failure
AfterVideo_SaveFailureFails ==
    /\ pc = "after_video"
    /\ IF filePath # None
       THEN \E sizeOk \in BOOLEAN :
              IF sizeOk
              THEN ReturnResult(IF storeWritable \/ ~Truthy(args.result_id)
                                THEN SuccessResult(filePath)
                                ELSE FailureResult("Failed to save result"))
              ELSE Raise /\ UNCHANGED <<store, resultLog, result>>
       ELSE ReturnResult(FailureResult("Download failed"))
    /\ UNCHANGED <<mainVars, pathVars, storeVars, args, dirCreatable, storeWritable, progressLog, ioLog, now,
                   lastProgressUpdate, totalSize, downloaded, dirFiles, ytdlpUrl,
                   proc, linesRead, outputTail, stdoutLines, directFailed, dvStart, filePath,
                   envelope, exitCode>>

\* task_download after download_video returned
AfterVideo ==
    /\ pc = "after_video"
    /\ IF filePath # None
       THEN \E sizeOk \in BOOLEAN :
              IF sizeOk
              THEN ReturnResult(SuccessResult(filePath))
              ELSE Raise /\ UNCHANGED <<store, resultLog, result>>
       ELSE ReturnResult(FailureResult("Download failed"))
    /\ UNCHANGED <<mainVars, pathVars, storeVars, args, dirCreatable, storeWritable, progressLog, ioLog, now,
                   lastProgressUpdate, totalSize, downloaded, dirFiles, ytdlpUrl,
                   proc, linesRead, outputTail, stdoutLines, directFailed, dvStart, filePath,
                   envelope, exitCode>>

(***************************************************************************)
(* main: the envelope and the exit code.                                   *)
(***************************************************************************)
\* (mutant) a task-level failure ends the process with exit code 1
MainWriteOutput_FailureExits1 ==
    /\ pc = "write_output"
    /\ envelope' = Append(envelope, WrittenDocument(result[1]))
    /\ exitCode' = IF IsMapping(result[1]) /\ "result_error" \in DOMAIN result[1]
                   THEN 1 ELSE 0
    /\ pc' = "done"
    /\ UNCHANGED <<mainVars, pathVars, storeVars, args, dirCreatable, storeWritable, store, progressLog, resultLog,
                   ioLog, now, lastProgressUpdate, totalSize, downloaded, dirFiles,
                   ytdlpUrl, proc, linesRead, outputTail, stdoutLines, directFailed, dvStart,
                   filePath, result>>

MainWriteOutput ==
    /\ pc = "write_output"
    /\ envelope' = Append(envelope, WrittenDocument(result[1]))
    /\ exitCode' = 0
    /\ pc' = "done"
    /\ UNCHANGED <<mainVars, pathVars, storeVars, args, dirCreatable, storeWritable, store, progressLog, resultLog,
                   ioLog, now, lastProgressUpdate, totalSize, downloaded, dirFiles,
                   ytdlpUrl, proc, linesRead, outputTail, stdoutLines, directFailed, dvStart,
                   filePath, result>>

\* (mutant) the guard logs the exception and exits without write_output
MainExcept_NoOutput ==
    /\ pc = "main_except"
    /\ exitCode' = 1
    /\ pc' = "done"
    /\ UNCHANGED <<mainVars, pathVars, storeVars, args, dirCreatable, storeWritable, store, progressLog, resultLog,
                   ioLog, now, lastProgressUpdate, totalSize, downloaded, dirFiles,
                   ytdlpUrl, proc, linesRead, outputTail, stdoutLines, directFailed, dvStart,
                   filePath, result, envelope>>

MainExcept ==
    /\ pc = "main_except"
    /\ envelope' = Append(envelope, WrittenDocument(FailureResult("Internal error")))
    /\ exitCode' = 1
    /\ pc' = "done"
    /\ UNCHANGED <<mainVars, pathVars, storeVars, args, dirCreatable, storeWritable, store, progressLog, resultLog,
                   ioLog, now, lastProgressUpdate, totalSize, downloaded, dirFiles,
                   ytdlpUrl, proc, linesRead, outputTail, stdoutLines, directFailed, dvStart,
                   filePath, result>>

(***************************************************************************)
(* json.dump / json.load.  A document is a sequence of tokens; a file      *)
(* holds the tokens written to it so far.                                  *)
(***************************************************************************)
LBrace == [t |-> "{", v |-> ""]
RBrace == [t |-> "}", v |-> ""]

\* the fields of the records, in the order the code builds them
FieldOrder == <<"status", "percentage", "result_error", "file_path", "file_size",
                "success">>
BoolFields == {"success"}
IntFields  == {"file_size", "percentage"}
JsonInts   == 0..100

\* a value as JSON text: true/false, digits, or a quoted string
JsonValue(k, v) ==
    IF k \in BoolFields THEN [t |-> "lit", v |-> IF v THEN "true" ELSE "false"]
    ELSE IF k \in IntFields THEN [t |-> "num", v |-> ToString(v)]
    ELSE [t |-> "str", v |-> v]

RECURSIVE JsonMembers(_, _)
JsonMembers(rec, i) ==
    IF i > Len(FieldOrder) THEN <<>>
    ELSE (IF FieldOrder[i] \in DOMAIN rec
          THEN <<[t |-> "key", v |-> FieldOrder[i]],
                 JsonValue(FieldOrder[i], rec[FieldOrder[i]])>>
          ELSE <<>>) \o JsonMembers(rec, i + 1)

\* json.dump(data, f): the text of a record
JsonDump(rec) == <<LBrace>> \o JsonMembers(rec, 1) \o <<RBrace>>

\* the text is one complete object: { (key value)* }
JsonWellFormed(text) ==
    /\ Len(text) >= 2
    /\ (Len(text) - 2) % 2 = 0
    /\ text[1] = LBrace
    /\ text[Len(text)] = RBrace
    /\ \A i \in 2..(Len(text) - 1) :
         IF i % 2 = 0 THEN text[i].t = "key"
                      ELSE text[i].t \in {"lit", "num", "str"}

JsonParseValue(tok) ==
    IF tok.t = "lit" THEN tok.v = "true"
    ELSE IF tok.t = "num" THEN CHOOSE n \in JsonInts : ToString(n) = tok.v
    ELSE tok.v

\* json.load(f): <<record>>, or <<>> when the text is no JSON document
\* (json.JSONDecodeError); of a repeated key the last value counts
JsonLoad(text) ==
    IF ~JsonWellFormed(text) THEN <<>>
    ELSE LET n == (Len(text) - 2) \div 2
             keys == {text[2 * i].v : i \in 1..n}
             last(k) == CHOOSE i \in 1..n :
                          /\ text[2 * i].v = k
                          /\ \A j \in 1..n : text[2 * j].v = k => j <= i
         IN  <<[k \in keys |-> JsonParseValue(text[2 * last(k) + 1])]>>

(***************************************************************************)
(* The result store at file level: one process saves, another polls        *)
(* (loads) and cleans up (deletes), each call in its file-system steps.    *)
(***************************************************************************)
NoFile == [exists |-> FALSE, data |-> <<>>]

\* (mutant) open(result_path, "a"): the old text is kept
OpenForAppend(file) == [exists |-> TRUE, data |-> file.data]

\* open(result_path, "w"): the file is created or truncated
OpenForWrite(file) == [exists |-> TRUE, data |-> <<>>]

\* the ids the two processes use ("r" and "./r" name the same file) and the
\* records saved
StoreOpIds   == {<<"r">>, <<".", "/", "r">>, <<"7">>}
StorePaths   == {GetResultPath(id) : id \in StoreOpIds}
StoreRecords == {SuccessResult(ToolFile), FailureResult("Download failed")}

WriterIdle == [pc |-> "idle", path |-> <<>>, data |-> <<>>, pending |-> <<>>,
               unlinked |-> FALSE, saves |-> 0, prev |-> <<>>]
\* held: the record of the last completed save when the load began (<<>>: none);
\* sawSettled: the same, unless a save was rewriting the file at that moment;
\* undisturbed: no save has opened the file since the load began
\* op: the last call that returned ("none", "load", "delete"); ret: what the
\* last delete_result returned; absentBefore: its file did not exist; kept: it
\* left every file as it was; gone: <<q>> when q was the path of the last
\* delete_result and no save has opened q since; repeat: the delete followed
\* such a delete of the same path (firstRet, firstAbsent: that one's ret and
\* absentBefore); afterDelete: the load followed such a delete of its path
PollerIdle == [pc |-> "idle", path |-> <<>>, out |-> <<>>, held |-> <<>>,
               sawSettled |-> <<>>, undisturbed |-> FALSE, polls |-> 0,
               loads |-> 0, op |-> "none", ret |-> "none",
               absentBefore |-> FALSE, kept |-> FALSE, gone |-> <<>>,
               repeat |-> FALSE, firstRet |-> "none", firstAbsent |-> FALSE,
               afterDelete |-> FALSE]

StoreIdle ==
    /\ files = [q \in StorePaths |-> NoFile]
    /\ writer = WriterIdle
    /\ poller = PollerIdle
    /\ settled = [q \in StorePaths |-> <<>>]

\* the record an undisturbed reader must find at the path: that of the last
\* completed save, unless a save is rewriting the file
Settled(q) == IF writer.pc = "writing" /\ writer.path = q THEN <<>> ELSE settled[q]

\* save_result, first part: ensure_result_dir, get_result_path, open(path, "w")
SaveOpen ==
    /\ writer.pc = "idle"
    /\ writer.saves < MaxSaves
    /\ \E id \in StoreOpIds, data \in StoreRecords :
         LET q == GetResultPath(id) IN
         /\ files' = [files EXCEPT ![q] = OpenForWrite(files[q])]
         /\ writer' = [writer EXCEPT !.pc = "writing", !.path = q, !.data = <<data>>,
                                     !.pending = JsonDump(data), !.unlinked = FALSE,
                                     !.prev = settled[q]]
         /\ poller' = [poller EXCEPT
                         !.undisturbed = IF poller.pc = "loading" /\ poller.path = q
                                         THEN FALSE ELSE @,
                         !.gone = IF @ = <<q>> THEN <<>> ELSE @]
    /\ UNCHANGED <<mainVars, pathVars, taskVars, settled>>

\* json.dump writes through the file's buffer: the text reaches the file in
\* one piece or in two
SaveWrite ==
    /\ writer.pc = "writing"
    /\ writer.pending # <<>>
    /\ \E k \in {Len(writer.pending), (Len(writer.pending) + 1) \div 2} :
         /\ files' = IF writer.unlinked THEN files
                     ELSE [files EXCEPT ![writer.path].data =
                             @ \o SubSeq(writer.pending, 1, k)]
         /\ writer' = [writer EXCEPT !.pending =
                         SubSeq(writer.pending, k + 1, Len(writer.pending))]
    /\ UNCHANGED <<mainVars, pathVars, taskVars, poller, settled>>

\* the with block ends: the file is closed, save_result returns True
SaveClose ==
    /\ writer.pc = "writing"
    /\ writer.pending = <<>>
    /\ writer' = [writer EXCEPT !.pc = "idle", !.saves = @ + 1]
    /\ settled' = [settled EXCEPT ![writer.path] =
                     IF writer.unlinked THEN <<>> ELSE writer.data]
    /\ UNCHANGED <<mainVars, pathVars, taskVars, files, poller>>

\* load_result, first part: get_result_path, os.path.exists; a missing file
\* is "absent" (None)
LoadExists ==
    /\ poller.pc = "idle"
    /\ poller.polls < MaxPolls
    /\ \E id \in StoreOpIds :
         LET q == GetResultPath(id) IN
         poller' = IF files[q].exists
                   THEN [poller EXCEPT !.pc = "loading", !.path = q, !.out = <<>>,
                                       !.held = settled[q],
                                       !.sawSettled = Settled(q),
                                       !.undisturbed = TRUE,
                                       !.afterDelete = (poller.gone = <<q>>)]
                   ELSE [poller EXCEPT !.path = q, !.out = <<>>, !.held = settled[q],
                                       !.sawSettled = Settled(q),
                                       !.undisturbed = TRUE,
                                       !.afterDelete = (poller.gone = <<q>>),
                                       !.op = "load",
                                       !.polls = @ + 1, !.loads = @ + 1]
    /\ UNCHANGED <<mainVars, pathVars, taskVars, files, writer, settled>>

\* load_result, second part: open(path, "r") and json.load; every exception
\* (no such file, no JSON document) gives None
LoadRead ==
    /\ poller.pc = "loading"
    /\ poller' = [poller EXCEPT !.pc = "idle", !.polls = @ + 1, !.loads = @ + 1,
                                !.op = "load",
                                !.out = IF files[poller.path].exists
                                        THEN JsonLoad(files[poller.path].data)
                                        ELSE <<>>]
    /\ UNCHANGED <<mainVars, pathVars, taskVars, files, writer, settled>>

\* (mutant) os.remove without the os.path.exists test: a missing file raises
\* FileNotFoundError, which the except clause turns into False
DeleteFile_NoExistsTest(fs, q) ==
    IF fs[q].exists
    THEN [files |-> [fs EXCEPT ![q] = NoFile], ret |-> "true"]
    ELSE [files |-> fs, ret |-> "false"]

\* "if os.path.exists(result_path): os.remove(result_path)", "return True":
\* the files afterwards and the value returned
DeleteFile(fs, q) ==
    IF fs[q].exists
    THEN [files |-> [fs EXCEPT ![q] = NoFile], ret |-> "true"]
    ELSE [files |-> fs, ret |-> "true"]

\* delete_result; a writer that has the file open goes on writing to the
\* removed file
DeleteResult ==
    /\ poller.pc = "idle"
    /\ poller.polls < MaxPolls
    /\ \E id \in StoreOpIds :
         LET q == GetResultPath(id)
             d == DeleteFile(files, q)
         IN
         /\ files' = d.files
         /\ settled' = [settled EXCEPT ![q] = <<>>]
         /\ writer' = IF writer.pc = "writing" /\ writer.path = q
                      THEN [writer EXCEPT !.unlinked = TRUE] ELSE writer
         /\ poller' = [poller EXCEPT !.polls = @ + 1, !.path = q, !.out = <<>>,
                                     !.held = <<>>, !.sawSettled = <<>>,
                                     !.undisturbed = FALSE,
                                     !.op = "delete", !.ret = d.ret,
                                     !.absentBefore = ~files[q].exists,
                                     !.kept = (d.files = files),
                                     !.repeat = (poller.gone = <<q>>),
                                     !.firstRet = poller.ret,
                                     !.firstAbsent = poller.absentBefore,
                                     !.gone = <<q>>]
    /\ UNCHANGED <<mainVars, pathVars, taskVars>>

NextStore ==
    \/ SaveOpen
    \/ SaveWrite
    \/ SaveClose
    \/ LoadExists
    \/ LoadRead
    \/ DeleteResult

InitStore == TaskIdle /\ PathIdle /\ StoreIdle /\ MainIdle

SpecStore == InitStore /\ [][NextStore]_vars

(***************************************************************************)
(* get_result_path applied to an id.                                       *)
(***************************************************************************)
InitPath ==
    /\ TaskIdle
    /\ StoreIdle
    /\ MainIdle
    /\ probe \in AllIds
    /\ answer = <<>>

ApplyGetResultPath ==
    /\ answer = <<>>
    /\ answer' = <<GetResultPath(probe)>>
    /\ UNCHANGED <<mainVars, probe, storeVars, taskVars>>

NextPath == ApplyGetResultPath

SpecPath == InitPath /\ [][NextPath]_vars

(***************************************************************************)
(* write_output applied to a result mapping.                               *)
(***************************************************************************)
EmptyMapping == [k \in {} |-> TRUE]
Opt(k, o) == IF o = <<>> THEN EmptyMapping ELSE [x \in {k} |-> o[1]]

\* result mappings: each key absent (<<>>) or present with one of its values
ResultMappings ==
    {Opt("result_error", e) @@ Opt("success", b) @@ Opt("retrieved", r)
       @@ Opt("file_path", f) @@ Opt("not_found", n) :
        e \in {<<>>, <<"No URL provided">>, <<"">>},
        b \in {<<>>, <<TRUE>>, <<FALSE>>},
        r \in {<<>>, <<TRUE>>, <<FALSE>>},
        f \in {<<>>, <<ToolFile>>},
        n \in {<<>>, <<TRUE>>}}

InitOutput ==
    /\ TaskIdle
    /\ StoreIdle
    /\ MainIdle
    /\ probe \in ResultMappings
    /\ answer = <<>>

ApplyWriteOutput ==
    /\ answer = <<>>
    /\ answer' = <<WriteOutput(probe)>>
    /\ UNCHANGED <<mainVars, probe, storeVars, taskVars>>

NextOutput == ApplyWriteOutput

SpecOutput == InitOutput /\ [][NextOutput]_vars

(***************************************************************************)
(* One invocation of the download task.                                    *)
(***************************************************************************)
Init == InitTask /\ PathIdle /\ StoreIdle /\ MainIdle

Next ==
    \/ TaskDownload
    \/ DirectGet
    \/ DirectChunk
    \/ DirectStreamError
    \/ DirectDone
    \/ CheckYtdlp
    \/ InstallYtdlp
    \/ DownloadVideo
    \/ Popen
    \/ ReadOutput
    \/ ReadEof
    \/ ProcHang
    \/ WaitExit
    \/ AfterVideo
    \/ MainWriteOutput
    \/ MainExcept

Spec == Init /\ [][Next]_vars

(***************************************************************************)
(* main: one whole invocation, from the input document to the exit code,   *)
(* with every handler of the dispatch table.  The handlers other than      *)
(* task_download are single steps.                                         *)
(***************************************************************************)
envVars == <<dirCreatable, storeWritable>>
downloadVars == <<progressLog, ioLog, now, lastProgressUpdate, totalSize,
                  downloaded, dirFiles, ytdlpUrl, proc, linesRead, outputTail, stdoutLines,
                  directFailed, dvStart, filePath>>

\* the dispatch table: selector -> handler
TaskTable ==
    [download            |-> "task_download",
     extract_metadata    |-> "task_extract_metadata",
     read_result         |-> "task_read_result",
     cleanup_result      |-> "task_cleanup_result",
     check_ytdlp         |-> "task_check_ytdlp",
     test_proxy          |-> "task_test_proxy",
     fetch_image         |-> "task_fetch_image",
     scrape_reddit       |-> "task_scrape_reddit",
     check_praw          |-> "delegate_to_reddit_client",
     fetch_posts         |-> "delegate_to_reddit_client",
     embed_metadata      |-> "delegate_to_metadata_embedder",
     check_metadata_deps |-> "delegate_to_metadata_embedder"]

\* "if 'args' in input_data and isinstance(input_data.get('args'), dict)"
ArgumentObject(doc) == IF doc.argsKind = "object" THEN doc.inner ELSE doc.top

\* args.get("mode") or args.get("task", "download")
\* (mutant) the legacy key wins over mode
TaskNameOf_TaskFirst(a) ==
    IF Truthy(a.task) THEN a.task
    ELSE IF a.mode # None THEN a.mode ELSE "download"

TaskNameOf(a) ==
    IF Truthy(a.mode) THEN a.mode
    ELSE IF a.task # None THEN a.task ELSE "download"

\* (mutant) an unknown selector answered like a missing argument
UnknownTask_Generic(name) == FailureResult("No URL provided")

UnknownTask(name) == FailureResult("Unknown task: " \o name)

\* a handler returns res without saving it
Return(res) == result' = <<res>> /\ pc' = "write_output"

\* read_input, the argument object, the selector, tasks.get(task_name); an
\* input that is no object raises at '"args" in input_data' or at
\* input_data.get
MainDispatch ==
    /\ pc = "main"
    /\ IF input.kind # "object"
       THEN /\ pc' = "main_except"
            /\ UNCHANGED <<args, taskName, handler, result>>
       ELSE LET a == ArgumentObject(input)
                name == TaskNameOf(a)
            IN  /\ args' = a
                /\ taskName' = name
                /\ IF name \in DOMAIN TaskTable
                   THEN /\ handler' = TaskTable[name]
                        /\ pc' = TaskTable[name]
                        /\ UNCHANGED result
                   ELSE /\ Return(UnknownTask(name))
                        /\ UNCHANGED handler
    /\ UNCHANGED <<input, pathVars, storeVars, envVars, downloadVars, store,
                   resultLog, envelope, exitCode>>

\* (mutant) the stored record is returned with retrieved added and nothing
\* renamed
ReadFound_NoRename(data) ==
    LET r1 == [retrieved |-> TRUE] @@ data
    IN  IF "success" \in DOMAIN r1 THEN r1
        ELSE [success |-> "task_error" \notin DOMAIN r1] @@ r1

\* the record task_read_result returns for a stored record: retrieved added,
\* result_error and error renamed to task_error, success defaulted
ReadFound(data) ==
    LET r1 == [retrieved |-> TRUE] @@ data
        r2 == IF "result_error" \in DOMAIN r1
              THEN [task_error |-> r1.result_error] @@ WithoutKey(r1, "result_error")
              ELSE r1
        r3 == IF "error" \in DOMAIN r2
              THEN [task_error |-> r2.error] @@ WithoutKey(r2, "error")
              ELSE r2
    IN  IF "success" \in DOMAIN r3 THEN r3
        ELSE [success |-> "task_error" \notin DOMAIN r3] @@ r3

NotFound == [success |-> TRUE, retrieved |-> FALSE, not_found |-> TRUE]

\* (mutant) a missing entry reported as a failure
ReadResult_AbsentIsFailure(st, id) ==
    IF LoadResult(st, id) # <<>> /\ DOMAIN LoadResult(st, id)[1] # {}
    THEN ReadFound(LoadResult(st, id)[1])
    ELSE [result_error |-> "Result not found", success |-> FALSE, retrieved |-> FALSE]

\* task_read_result from load_result on: "if data:" is false for None and for
\* an empty record
ReadResult(st, id) ==
    IF LoadResult(st, id) # <<>> /\ DOMAIN LoadResult(st, id)[1] # {}
    THEN ReadFound(LoadResult(st, id)[1])
    ELSE NotFound

\* task_read_result; result_id.startswith raises AttributeError for a
\* result_id that is no string
TaskReadResult ==
    /\ pc = "task_read_result"
    /\ IF Truthy(args.result_id) /\ ~IsStr(args.result_id)
       THEN Raise /\ UNCHANGED result
       ELSE IF ~Truthy(args.result_id)
       THEN Return([success |-> FALSE, result_error |-> "No result_id provided",
                    retrieved |-> FALSE])
       ELSE Return(ReadResult(store, args.result_id))
    /\ UNCHANGED <<mainVars, pathVars, storeVars, envVars, downloadVars, args,
                   store, resultLog, envelope, exitCode>>

\* task_cleanup_result; delete_result returns False for an id that is no
\* string (re.sub raises TypeError inside its try)
TaskCleanupResult ==
    /\ pc = "task_cleanup_result"
    /\ IF ~Truthy(args.result_id)
       THEN Return(FailureResult("No result_id provided")) /\ UNCHANGED store
       ELSE IF ~IsStr(args.result_id)
       THEN Return(FailureResult("Failed to delete result")) /\ UNCHANGED store
       ELSE /\ store' = [store EXCEPT ![args.result_id] = <<>>]
            /\ Return([success |-> TRUE, deleted |-> TRUE])
    /\ UNCHANGED <<mainVars, pathVars, storeVars, envVars, downloadVars, args,
                   resultLog, envelope, exitCode>>

\* what yt-dlp --dump-json may give extract_metadata: a failure (non-zero
\* exit, timeout, unparsable output), a metadata object, an empty object
ProbeOutcomes == {"extraction_error", "metadata", "empty"}

\* task_extract_metadata; check_ytdlp as in CheckYtdlp and InstallYtdlp; for
\* an empty metadata object "result" is never bound and the save or the return
\* raises UnboundLocalError
TaskExtractMetadata ==
    /\ pc = "task_extract_metadata"
    /\ IF ~Truthy(args.url)
       THEN ReturnResult(FailureResult("No URL provided"))
       ELSE \E tool \in {"available", "unavailable", "oserror"}, out \in ProbeOutcomes :
              CASE tool = "oserror" -> Raise /\ UNCHANGED <<store, resultLog, result>>
                [] tool = "unavailable" ->
                     ReturnResult(FailureResult("yt-dlp is not installed"))
                [] OTHER ->
                     CASE out = "extraction_error" ->
                            ReturnResult(FailureResult("ERROR: Unsupported URL"))
                       [] out = "metadata" ->
                            ReturnResult([success |-> TRUE, title |-> "clip",
                                          detected_content_type |-> "video"])
                       [] OTHER -> Raise /\ UNCHANGED <<store, resultLog, result>>
    /\ UNCHANGED <<mainVars, pathVars, storeVars, envVars, downloadVars, args,
                   envelope, exitCode>>

\* task_check_ytdlp: only FileNotFoundError and TimeoutExpired are caught
TaskCheckYtdlp ==
    /\ pc = "task_check_ytdlp"
    /\ \E out \in VersionOutcomes :
         CASE out = "ok" ->
                Return([available |-> TRUE, success |-> TRUE, version |-> "2024.01.01"])
           [] out = "nonzero" ->
                Return([available |-> FALSE, success |-> TRUE,
                        status_message |-> "yt-dlp check failed"])
           [] out = "missing" ->
                Return([available |-> FALSE, success |-> TRUE,
                        status_message |-> "yt-dlp not installed"])
           [] out = "timeout" ->
                Return([available |-> FALSE, success |-> TRUE,
                        status_message |-> "yt-dlp check timed out"])
           [] OTHER -> Raise /\ UNCHANGED result
    /\ UNCHANGED <<mainVars, pathVars, storeVars, envVars, downloadVars, args,
                   store, resultLog, envelope, exitCode>>

\* task_test_proxy: everything after the proxy test is inside try/except
TaskTestProxy ==
    /\ pc = "task_test_proxy"
    /\ IF ~Truthy(args.proxy)
       THEN Return(FailureResult("No proxy URL provided"))
       ELSE \E ok \in BOOLEAN :
              IF ok
              THEN Return([success |-> TRUE, proxy |-> args.proxy,
                           message |-> "Successfully connected through proxy"])
              ELSE Return([result_error |-> "Proxy connection failed",
                           success |-> FALSE, proxy |-> args.proxy])
    /\ UNCHANGED <<mainVars, pathVars, storeVars, envVars, downloadVars, args,
                   store, resultLog, envelope, exitCode>>

\* task_fetch_image
TaskFetchImage ==
    /\ pc = "task_fetch_image"
    /\ IF ~Truthy(args.url)
       THEN Return(FailureResult("No URL provided"))
       ELSE \E ok \in BOOLEAN :
              IF ok
              THEN Return([success |-> TRUE, image_base64 |-> "data:image/jpeg;base64,"])
              ELSE Return(FailureResult("Failed to fetch image"))
    /\ UNCHANGED <<mainVars, pathVars, storeVars, envVars, downloadVars, args,
                   store, resultLog, envelope, exitCode>>

\* task_scrape_reddit
TaskScrapeReddit ==
    /\ pc = "task_scrape_reddit"
    /\ IF ~Truthy(args.url)
       THEN Return([success |-> FALSE, result_error |-> "No URL provided"])
       ELSE \E ok \in BOOLEAN :
              IF ok
              THEN Return([success |-> TRUE, title |-> "post"])
              ELSE Return([success |-> FALSE, result_error |-> "Reddit returned status 404"])
    /\ UNCHANGED <<mainVars, pathVars, storeVars, envVars, downloadVars, args,
                   store, resultLog, envelope, exitCode>>

\* what the delegate's child process may do: script missing, non-zero exit,
\* timeout, no output, output that is no JSON, a JSON object, JSON null
ChildOutcomes == {"no_script", "nonzero", "timeout", "no_output", "invalid",
                  "object", "null"}

\* delegate_to_reddit_client / delegate_to_metadata_embedder: the body is
\* inside try/except; json.loads(result.stdout) is returned as it is
Delegate(name, script) ==
    /\ pc = name
    /\ \E out \in ChildOutcomes :
         CASE out = "no_script" -> Return(FailureResult(script \o " script not found"))
           [] out = "nonzero"   -> Return(FailureResult(script \o " error"))
           [] out = "timeout"   -> Return(FailureResult(script \o " timed out"))
           [] out = "no_output" -> Return(FailureResult("No output from " \o script))
           [] out = "invalid"   ->
                Return(FailureResult("Invalid JSON response from " \o script))
           [] out = "object"    -> Return([success |-> TRUE])
           [] OTHER             -> Return(JsonNull)
    /\ UNCHANGED <<mainVars, pathVars, storeVars, envVars, downloadVars, args,
                   store, resultLog, envelope, exitCode>>

DelegateToRedditClient == Delegate("delegate_to_reddit_client", "reddit_client")
DelegateToMetadataEmbedder ==
    Delegate("delegate_to_metadata_embedder", "metadata_embedder")

\* the input documents.  Selection: every pair of a mode and a task with no
\* other key, flat (with no "args" key or one that is no object) and nested
\* (with and without top-level keys beside "args").  Handlers: each handler
\* selected by mode, flat and nested, with its arguments.
Modes == {None, "", "bogus"} \cup DOMAIN TaskTable
Tasks == {None, "", "read_result", "download", "bogus"}
ProxyUrl == "socks5://127.0.0.1:9050"

SelectorArgs == {[NoArgs EXCEPT !.mode = m, !.task = t] : m \in Modes, t \in Tasks}

HandlerArgs ==
    {[NoArgs EXCEPT !.mode = "download", !.url = u, !.result_id = i[1],
                    !.progress_id = i[2]] :
        u \in {DirectUrl, PageUrl},
        i \in {<<None, None>>, <<"r1", "p1">>, <<ProgressKey("p1"), "p1">>}}
    \cup
    {[NoArgs EXCEPT !.mode = m, !.result_id = r] :
        m \in {"read_result", "cleanup_result"},
        r \in {None, "", "r1", "r2", ProgressKey("p1"), NonStr}}
    \cup
    {[NoArgs EXCEPT !.mode = "extract_metadata", !.url = u, !.result_id = r] :
        u \in {None, PageUrl}, r \in {None, "r1"}}
    \cup
    {[NoArgs EXCEPT !.mode = m, !.url = u] :
        m \in {"fetch_image", "scrape_reddit"}, u \in {None, PageUrl}}
    \cup
    {[NoArgs EXCEPT !.mode = "test_proxy", !.proxy = x] : x \in {None, ProxyUrl}}

\* top-level keys next to a nested argument object
Decoy == [NoArgs EXCEPT !.mode = "cleanup_result", !.result_id = "r1"]

Inputs ==
    {[kind |-> "object", top |-> a, argsKind |-> k, inner |-> NoArgs] :
        a \in SelectorArgs, k \in {"absent", "other"}}
    \cup
    {[kind |-> "object", top |-> t, argsKind |-> "object", inner |-> a] :
        a \in SelectorArgs, t \in {NoArgs, Decoy}}
    \cup
    {[kind |-> "object", top |-> a, argsKind |-> "absent", inner |-> NoArgs] :
        a \in HandlerArgs}
    \cup
    {[kind |-> "object", top |-> NoArgs, argsKind |-> "object", inner |-> a] :
        a \in HandlerArgs}
    \cup
    {[NoInput EXCEPT !.kind = "other"]}

\* what the store holds when the invocation starts
StoredProgress == [status |-> "error", error |-> "Download failed", last_updated |-> 0]
InitialStores ==
    {[k \in StoreKeys |-> <<>>],
     [k \in StoreKeys |-> IF k = "r1" THEN <<SuccessResult(ToolFile)>> ELSE <<>>],
     [k \in StoreKeys |-> IF k = "r1" THEN <<FailureResult("Download failed")>>
                          ELSE IF k = "r2" THEN <<>> ELSE <<StoredProgress>>]}

InitMain ==
    /\ input \in Inputs
    /\ taskName = None
    /\ handler = None
    /\ args = NoArgs
    /\ dirCreatable \in BOOLEAN
    /\ storeWritable \in BOOLEAN
    /\ pc = "main"
    /\ store \in InitialStores
    /\ progressLog = <<>>
    /\ resultLog = <<>>
    /\ ioLog = <<>>
    /\ now = ClockStart
    /\ lastProgressUpdate = 0
    /\ totalSize = 0
    /\ downloaded = 0
    /\ dirFiles = <<>>
    /\ ytdlpUrl = None
    /\ proc = "none"
    /\ linesRead = 0
    /\ outputTail = None
    /\ stdoutLines = <<>>
    /\ directFailed = FALSE
    /\ dvStart = -1
    /\ filePath = None
    /\ result = <<>>
    /\ envelope = <<>>
    /\ exitCode = -1
    /\ PathIdle
    /\ StoreIdle

NextMain ==
    \/ MainDispatch
    \/ TaskReadResult
    \/ TaskCleanupResult
    \/ TaskExtractMetadata
    \/ TaskCheckYtdlp
    \/ TaskTestProxy
    \/ TaskFetchImage
    \/ TaskScrapeReddit
    \/ DelegateToRedditClient
    \/ DelegateToMetadataEmbedder
    \/ Next

SpecMain == InitMain /\ [][NextMain]_vars

\* the steps of the invocation itself (ProcHang is the tool's)
ProgramStep ==
    \/ TaskDownload \/ DirectGet \/ DirectChunk \/ DirectStreamError \/ DirectDone
    \/ CheckYtdlp \/ InstallYtdlp \/ DownloadVideo \/ Popen \/ ReadOutput
    \/ ReadEof \/ WaitExit \/ AfterVideo \/ MainWriteOutput \/ MainExcept

(***************************************************************************)
(* Properties of one download invocation (Spec).                           *)
(***************************************************************************)
Statuses(w) == [i \in 1..Len(w) |-> w[i].status]

\* the progress records written by the download_video call
DvWrites == IF dvStart >= 0
            THEN SubSeq(progressLog, dvStart + 1, Len(progressLog))
            ELSE <<>>

\* download_video was entered and has ended (by return or by exception)
DvEnded == dvStart >= 0 /\ pc \in {"after_video", "write_output", "main_except", "done"}

Terminal(rec) ==
    \/ rec.status = "complete" /\ "file_path" \in DOMAIN rec
    \/ rec.status = "error" /\ "error" \in DOMAIN rec

\* starting, downloading*, one terminal record
FullSequence(w) ==
    /\ Len(w) >= 2
    /\ w[1].status = "starting"
    /\ \A i \in 2..(Len(w) - 1) : w[i].status = "downloading"
    /\ Terminal(w[Len(w)])

\* a prefix of such a sequence that has no terminal record yet
OpenSequence(w) ==
    /\ Len(w) >= 1
    /\ w[1].status = "starting"
    /\ \A i \in 2..Len(w) : w[i].status = "downloading"

\* C1: for a download_video call given a progress_id, the records written to
\* progress-<id> are 'starting' (before the subprocess is spawned), then
\* 'downloading' records, then exactly one terminal record ('complete' with a
\* file_path or 'error' with a message) written last, however the call ends.
C1_ProgressSequence ==
    args.progress_id # None =>
      /\ DvEnded => FullSequence(DvWrites)
      /\ (dvStart >= 0 /\ pc \in {"popen", "read_output", "wait"}) => OpenSequence(DvWrites)
      /\ \A i \in 1..Len(ioLog) : ioLog[i].op = "yt-dlp" => ioLog[i].writes > dvStart

\* The same statement for the calls in which os.makedirs(output_dir) succeeds.
C1_SequenceOnceDirExists ==
    dirCreatable => C1_ProgressSequence

\* C2: when task_download was given a url and a progress_id and has returned,
\* the last record written to progress-<id> is 'complete' if the task succeeded
\* and 'error' if it failed.
C2_TerminalProgress ==
    (args.url # None /\ args.progress_id # None /\ result # <<>>) =>
      /\ progressLog # <<>>
      /\ progressLog[Len(progressLog)].status =
           IF result[1].success THEN "complete" ELSE "error"

\* C3: with a url and a progress_id, every network request and every
\* subprocess spawn of the invocation happens after the 'starting' record was
\* written.
C3_StartingBeforeIo ==
    (args.url # None /\ args.progress_id # None) =>
      \A i \in 1..Len(ioLog) : ioLog[i].writes >= 1

\* C4: download_video never blocks forever: when the extraction tool has
\* stalled, the call still has a step to take (the timeout that terminates the
\* tool and fails the call).
C4_NeverBlocked ==
    proc = "hung" => ENABLED ProgramStep

\* C5 (as claimed): after a failed direct fetch the extraction tool is run
\* only if a fallback_url was supplied, and then against the fallback_url.
C5_FallbackOnlyWithFallbackUrl ==
    directFailed =>
      \A i \in 1..Len(ioLog) :
        ioLog[i].op = "yt-dlp" =>
          args.fallback_url # None /\ ioLog[i].target = args.fallback_url

\* C5 (amended): the extraction tool is run at most once; after a failed direct
\* fetch it is run against the fallback_url when one was supplied and against
\* the original url when none was; without a failed direct fetch it is run
\* against the original url.
C5_FallbackTarget ==
    /\ Cardinality({i \in 1..Len(ioLog) : ioLog[i].op = "yt-dlp"}) <= 1
    /\ \A i \in 1..Len(ioLog) :
         ioLog[i].op = "yt-dlp" =>
           ioLog[i].target =
             IF directFailed /\ args.fallback_url # None
             THEN args.fallback_url ELSE args.url

C5_Witness ==
    /\ directFailed
    /\ args.fallback_url # None
    /\ \E i \in 1..Len(ioLog) : ioLog[i].op = "yt-dlp"
    /\ pc = "done"

\* C6: when task_download was given a result_id and has returned a result, it
\* has handed the result record to save_result once or twice, the last record
\* handed over is the returned result, and (the store accepting writes) that
\* is the record stored under the id.
C6_ResultSaved ==
    (args.result_id # None /\ result # <<>>) =>
      /\ Len(resultLog) \in 1..2
      /\ resultLog[Len(resultLog)] = result[1]
      /\ storeWritable => LoadResult(store, args.result_id) = result
      /\ ~storeWritable => LoadResult(store, args.result_id) = <<>>

C6_Witness ==
    /\ args.result_id # None
    /\ storeWritable
    /\ pc = "done"
    /\ result # <<>>
    /\ result[1].success
    /\ directFailed

\* C7: a direct-file url on an unreachable host with no fallback_url ends with
\* an envelope with output.success = false and a non-empty error, exit code 0,
\* and (a result_id given, the store accepting writes) a stored record with the
\* same success flag and error message.
C7_UnreachableDirect ==
    (pc = "done" /\ IsDirectFileUrl(args.url) /\ Unreachable(args.url)
       /\ args.fallback_url = None) =>
      /\ exitCode = 0
      /\ "error" \in DOMAIN envelope[1] /\ envelope[1].error # ""
      /\ "output" \in DOMAIN envelope[1] /\ envelope[1].output.success = FALSE
      /\ (args.result_id # None /\ storeWritable) =>
           /\ LoadResult(store, args.result_id) # <<>>
           /\ LoadResult(store, args.result_id)[1].success = FALSE
           /\ LoadResult(store, args.result_id)[1].result_error = envelope[1].error

\* C7 restricted to the handled outcomes: whenever the invocation exits 0 the
\* envelope and the stored record are as stated.
C7_WhenHandled == exitCode = 0 => C7_UnreachableDirect

(***************************************************************************)
(* Properties of the result store (SpecStore, SpecPath).                   *)
(***************************************************************************)
\* C8: a load_result of an id that held a record when the load began, run
\* while another process saves to the id, returns a complete record (the old
\* one or the new one), never 'absent'.
C8_LoadNeverAbsent ==
    (poller.pc = "idle" /\ poller.held # <<>>) =>
      /\ poller.out # <<>>
      /\ poller.out[1] \in StoreRecords

Separators == {"/", "\\"}
LastSeparator(path) ==
    CHOOSE i \in 0..Len(path) :
      /\ i > 0 => path[i] \in Separators
      /\ \A j \in (i + 1)..Len(path) : path[j] \notin Separators
DirName(path) == SubSeq(path, 1, LastSeparator(path) - 1)
BaseName(path) == SubSeq(path, LastSeparator(path) + 1, Len(path))

RECURSIVE OnlySafe(_)
OnlySafe(str) ==
    IF str = <<>> THEN <<>>
    ELSE (IF Head(str) \in SafeIdChars THEN <<Head(str)>> ELSE <<>>)
         \o OnlySafe(Tail(str))

\* C9: for every id, get_result_path(id) is a file directly inside RESULT_DIR,
\* named by the id's characters in [A-Za-z0-9_-] followed by ".json".
C9_PathInsideRoot ==
    answer # <<>> =>
      /\ DirName(answer[1]) = ResultDir
      /\ BaseName(answer[1]) = OnlySafe(probe) \o JsonSuffix
      /\ BaseName(answer[1]) \notin {<<>>, <<".">>, <<".", ".">>}

C9_Witness ==
    /\ answer # <<>>
    /\ \E i, j, k \in 1..Len(probe) :
         /\ i < j /\ j < k
         /\ probe[i] = "." /\ probe[j] = "/" /\ probe[k] \in SafeIdChars

\* C10: a load_result that follows a completed save_result(id, R), with no
\* write or delete to the entry in between, returns exactly R: no field of a
\* record stored before under the id is left.
C10_RoundTrip ==
    (poller.pc = "idle" /\ poller.sawSettled # <<>> /\ poller.undisturbed) =>
      poller.out = poller.sawSettled

\* the loaded record was saved over a different one
C10_Witness ==
    /\ poller.pc = "idle"
    /\ poller.sawSettled # <<>>
    /\ poller.undisturbed
    /\ poller.out = poller.sawSettled
    /\ writer.pc = "idle"
    /\ writer.path = poller.path
    /\ writer.data = poller.out
    /\ writer.prev # <<>>
    /\ writer.prev # writer.data

\* C11: delete_result of an id with no stored entry returns True and leaves
\* every file as it was; a load_result that follows a delete_result of the
\* same entry reports absent; a delete_result repeated on the same entry
\* returns what the first returned and changes nothing.
C11_DeleteIdempotent ==
    /\ (poller.op = "delete" /\ poller.absentBefore) =>
         /\ poller.ret = "true"
         /\ poller.kept
    /\ (poller.op = "load" /\ poller.pc = "idle" /\ poller.afterDelete) =>
         poller.out = <<>>
    /\ (poller.op = "delete" /\ poller.repeat) =>
         /\ poller.ret = poller.firstRet
         /\ poller.kept

\* a stored entry was deleted, then deleted again
C11_Witness ==
    /\ poller.op = "delete"
    /\ poller.repeat
    /\ ~poller.firstAbsent
    /\ poller.absentBefore
    /\ poller.ret = "true"

C13_HandlersNeverRaise ==
    ~(pc = "main_except" /\ handler # None)

\* C14: the exit code is 0 when a result was returned (by a handler, or the
\* unknown-task failure), task-level failures included; it is 1 exactly when
\* an exception reached main's guard instead, and then the 'Internal error'
\* envelope was written; there is no exit code before the end.
C14_ExitCode ==
    /\ pc # "done" => exitCode = -1
    /\ pc = "done" =>
         /\ exitCode \in {0, 1}
         /\ exitCode = 0 <=> result # <<>>
         /\ exitCode = 1 =>
              envelope = <<[error |-> "Internal error", output |-> [success |-> FALSE]]>>

\* a handler raised: exit code 1 with the envelope written
C14_Witness ==
    /\ pc = "done"
    /\ handler = "task_read_result"
    /\ args.result_id = NonStr
    /\ exitCode = 1
    /\ Len(envelope) = 1

\* C15: at most one document is ever written to standard output, and when
\* main has ended exactly one was: the envelope of the result, the fallback
\* document for a result write_output cannot handle, or the guard's envelope.
C15_OneDocument ==
    /\ Len(envelope) <= 1
    /\ pc = "done" <=> Len(envelope) = 1
    /\ \A i \in 1..Len(envelope) :
         /\ DOMAIN envelope[i] \subseteq {"error", "output"}
         /\ DOMAIN envelope[i] # {}
         /\ (result # <<>> /\ ~IsMapping(result[1])) => envelope[i] = FallbackDocument

\* the fallback document was written
C15_Witness ==
    /\ pc = "done"
    /\ result = <<JsonNull>>
    /\ envelope = <<FallbackDocument>>
    /\ exitCode = 0

\* C16: for a result mapping with the key result_error the envelope's error
\* is its value and output holds exactly the other fields (no output key when
\* there are none); otherwise the envelope is the whole result under output;
\* the envelope has at least one of the keys error and output and no other.
C16_EnvelopeShape ==
    answer # <<>> =>
      LET res == probe
          env == answer[1]
          rest == DOMAIN res \ {"result_error"}
      IN  /\ DOMAIN env \subseteq {"error", "output"}
          /\ DOMAIN env # {}
          /\ IF "result_error" \in DOMAIN res
             THEN /\ "error" \in DOMAIN env
                  /\ env.error = res.result_error
                  /\ "output" \in DOMAIN env <=> rest # {}
                  /\ rest # {} =>
                       /\ DOMAIN env.output = rest
                       /\ \A k \in rest : env.output[k] = res[k]
             ELSE /\ DOMAIN env = {"output"}
                  /\ env.output = res

\* a failure with other fields, and one with none
C16_Witness ==
    /\ answer # <<>>
    /\ "result_error" \in DOMAIN probe
    /\ "success" \in DOMAIN probe
    /\ "error" \in DOMAIN answer[1]
    /\ DOMAIN answer[1].output = DOMAIN probe \ {"result_error"}

\* the messages of the unknown-task failure
UnknownTaskMessages == {"Unknown task: " \o n : n \in (Modes \cup Tasks) \ {None}}

C18_HandlerSelection ==
    (pc # "main" /\ input.kind = "object") =>
      LET a == IF input.argsKind = "object" THEN input.inner ELSE input.top
          sel == IF a.mode \notin {None, ""} THEN a.mode
                 ELSE IF a.task # None THEN a.task
                 ELSE "download"
      IN  /\ args = a
          /\ taskName = sel
          /\ handler = IF sel \in DOMAIN TaskTable THEN TaskTable[sel] ELSE None
          /\ (a.mode = None /\ a.task = None) => handler = "task_download"

\* mode and task disagree, nested beside top-level keys: mode wins
C18_Witness ==
    /\ pc = "done"
    /\ input.argsKind = "object"
    /\ input.top = Decoy
    /\ input.inner.mode = "read_result"
    /\ input.inner.task = "download"
    /\ handler = "task_read_result"

(***************************************************************************)
(* Progress timestamps (Spec).                                             *)
(***************************************************************************)
\* C19: two consecutive 'downloading' records written to progress-<id> (they
\* belong to one download_video or download_direct_file call) carry
\* last_updated values at least 0.5 s apart.
C19_Throttle ==
    \A i \in 1..(Len(progressLog) - 1) :
      (progressLog[i].status = "downloading" /\ progressLog[i + 1].status = "downloading") =>
        progressLog[i + 1].last_updated - progressLog[i].last_updated
          >= ProgressUpdateInterval

\* two tool lines 0.1 s apart gave one write
C19_Witness ==
    /\ linesRead = 2
    /\ stdoutLines = <<>>
    /\ now = ClockStart + 2
    /\ Cardinality({i \in 1..Len(DvWrites) : DvWrites[i].status = "downloading"}) = 1

\* C20: every progress record carries last_updated, and the last_updated
\* values of the records written in one invocation never decrease.
C20_TimestampsMonotonic ==
    /\ \A i \in 1..Len(progressLog) : "last_updated" \in DOMAIN progressLog[i]
    /\ \A i \in 1..(Len(progressLog) - 1) :
         progressLog[i].last_updated <= progressLog[i + 1].last_updated

\* a direct fetch that wrote progress and failed, followed by the extraction
\* downloader's records up to the terminal one
C20_Witness ==
    /\ directFailed
    /\ dvStart >= 2
    /\ progressLog[dvStart].status = "downloading"
    /\ Len(DvWrites) >= 3
    /\ Terminal(progressLog[Len(progressLog)])

(***************************************************************************)
(* Progress percentages (Spec).                                            *)
(***************************************************************************)
\* C21: every percentage written to a progress record lies in 0..100, also
\* when the direct fetcher receives more bytes than content-length announced.
C21_PercentageRange ==
    \A i \in 1..Len(progressLog) :
      "percentage" \in DOMAIN progressLog[i] =>
        /\ progressLog[i].percentage >= 0
        /\ progressLog[i].percentage <= 100

(***************************************************************************)
(* The files of the store that one invocation writes (SpecMain).           *)
(***************************************************************************)
\* the characters of the ids of the invocations
ProgressPrefix == <<"p", "r", "o", "g", "r", "e", "s", "s", "-">>
Spell(id) ==
    CASE id = "r1" -> <<"r", "1">>
      [] id = "r2" -> <<"r", "2">>
      [] id = "p1" -> <<"p", "1">>
      [] id = ProgressKey("p1") -> ProgressPrefix \o <<"p", "1">>

\* the file of save_result(result_id, ...) and the file of
\* save_result(f"progress-{progress_id}", ...)
ResultFile == GetResultPath(Spell(args.result_id))
ProgressFile == GetResultPath(ProgressPrefix \o Spell(args.progress_id))

\* C22: the file that receives the result record of an invocation is never
\* the file that receives its progress snapshots, whatever result_id and
\* progress_id the caller supplied.
C22_Namespaces ==
    (handler = "task_download" /\ resultLog # <<>> /\ progressLog # <<>>) =>
      ResultFile # ProgressFile

\* C23: an entry of the store is removed by cleanup_result only: no step of
\* another handler or of main turns a stored entry into an absent one, and
\* when a download has ended its result entry and its progress entry (each
\* written at least once, the store accepting writes) are in the store.
C23_OnlyCleanupDeletes ==
    [][ /\ handler' # "task_cleanup_result" =>
             \A k \in StoreKeys : store[k] # <<>> => store'[k] # <<>>
        /\ (pc' = "done" /\ handler' = "task_download" /\ storeWritable') =>
             /\ resultLog' # <<>> => store'[args'.result_id] # <<>>
             /\ progressLog' # <<>> => store'[ProgressKey(args'.progress_id)] # <<>> ]_vars

\* a download ended with its result record and its terminal progress record
\* in the store
C23_Witness ==
    /\ pc = "done"
    /\ handler = "task_download"
    /\ args.result_id = "r1"
    /\ Len(resultLog) = 1
    /\ store["r1"] = result
    /\ store["r1"] # <<SuccessResult(ToolFile)>>
    /\ store[ProgressKey("p1")] # <<>>
    /\ Terminal(store[ProgressKey("p1")][1])

(***************************************************************************)
(* The file a download returns (Spec).                                     *)
(***************************************************************************)
\* C24: the file a failed direct fetch left in output_dir is never the
\* file_path of a success result of the same invocation, also not through the
\* newest-file scan of the extraction fallback.
C24_PartialFileNeverReturned ==
    (directFailed /\ result # <<>> /\ result[1].success) =>
      result[1].file_path # DirectFile

\* C25: when the extraction tool exits with a non-zero code, download_video
\* returns no path and its last progress record is an 'error' record, whatever
\* was captured and whatever output_dir holds, and the error message recorded
\* is the tail of the tool's output (the lines of the model are shorter than
\* any truncation limit).
C25_NonZeroExitFails ==
    proc = "failed" =>
      /\ filePath = None
      /\ args.progress_id # None =>
           /\ progressLog[Len(progressLog)].status = "error"
           /\ outputTail # None =>
                progressLog[Len(progressLog)].error = outputTail

\* the first half of C25: the call fails with an 'error' record
C25_FailsWithErrorRecord ==
    proc = "failed" =>
      /\ filePath = None
      /\ args.progress_id # None =>
           /\ progressLog[Len(progressLog)].status = "error"
           /\ progressLog[Len(progressLog)].error # ""

(***************************************************************************)
(* parse_ytdlp_progress applied to a line (SpecParse).  A line is the      *)
(* sequence of its fields; the numerals are sequences of characters.       *)
(***************************************************************************)
DigitValue(c) == CHOOSE n \in 0..9 : ToString(n) = c

RECURSIVE DigitsValue(_)
DigitsValue(ds) ==
    IF ds = <<>> THEN 0
    ELSE 10 * DigitsValue(SubSeq(ds, 1, Len(ds) - 1)) + DigitValue(ds[Len(ds)])

RECURSIVE Pow(_, _)
Pow(b, n) == IF n = 0 THEN 1 ELSE b * Pow(b, n - 1)

\* float(text) of a numeral \d+\.?\d*: the fraction num / den
Float(text) ==
    LET dot == IF \E i \in 1..Len(text) : text[i] = "."
               THEN CHOOSE i \in 1..Len(text) : text[i] = "."
               ELSE Len(text) + 1
        whole == SubSeq(text, 1, dot - 1)
        frac  == SubSeq(text, dot + 1, Len(text))
    IN  [num |-> DigitsValue(whole \o frac), den |-> Pow(10, Len(frac))]

\* (mutant) the decimal units counted in powers of 1024
Multipliers_AllBinary ==
    [KiB |-> 1024, KB |-> 1024, MiB |-> 1024 * 1024, MB |-> 1024 * 1024,
     GiB |-> 1024 * 1024 * 1024, GB |-> 1024 * 1024 * 1024]

Multipliers ==
    [KiB |-> 1024, KB |-> 1000, MiB |-> 1024 * 1024, MB |-> 1000 * 1000,
     GiB |-> 1024 * 1024 * 1024, GB |-> 1000 * 1000 * 1000]

\* int(x * m) for a fraction x and an integer m, in steps that stay below 2^31
IntOfProduct(x, m) ==
    LET q == x.num \div x.den
        r == x.num % x.den
        a == m \div x.den
        b == m % x.den
    IN  q * m + r * a + (r * b) \div x.den

\* int(total_bytes * percentage / 100)
DownloadedBytes(total_bytes, percentage) ==
    LET d == percentage.den * 100
    IN  (total_bytes \div d) * percentage.num
          + ((total_bytes % d) * percentage.num) \div d

\* the regular expressions: the progress pattern needs "[download]", a
\* percentage, "of", a size and one of the six units; the speed pattern needs
\* one of the six units before "/s"; the ETA pattern needs digits ":" digits
ProgressMatch(line) ==
    line.form = "progress" /\ line.unit \in DOMAIN Multipliers
SpeedMatch(line) ==
    line.speed # <<>> /\ line.speed[1].unit \in DOMAIN Multipliers
EtaMatch(line) == line.eta # <<>>

\* parse_ytdlp_progress: <<>> for None, else <<the dict>>
ParseYtdlpProgress(line) ==
    IF line.tag # "[download]" THEN <<>>
    ELSE IF ~ProgressMatch(line) THEN <<>>
    ELSE LET percentage  == Float(line.pct)
             total_bytes == IntOfProduct(Float(line.size), Multipliers[line.unit])
         IN  <<[percentage |-> percentage,
                downloaded_bytes |-> DownloadedBytes(total_bytes, percentage),
                total_bytes |-> total_bytes]
               @@ (IF SpeedMatch(line)
                   THEN [speed |-> IntOfProduct(Float(line.speed[1].value),
                                                Multipliers[line.speed[1].unit])]
                   ELSE EmptyMapping)
               @@ (IF EtaMatch(line)
                   THEN [eta |-> DigitsValue(line.eta[1].minutes) * 60
                                   + DigitsValue(line.eta[1].seconds)]
                   ELSE EmptyMapping)>>

\* the lines: "[download]  <pct>% of [~]<size><unit>[ at <speed><unit>/s][ ETA
\* <mm>:<ss>]", the same after "[info]", and "[download] Destination: ..."; the
\* byte counts stay below 2^31
Percentages == {<<"0", ".", "0">>, <<"5", "0", ".", "0">>, <<"9", "9", ".", "9">>,
                <<"1", "0", "0">>}
SizesOf(unit) ==
    {<<"1", ".", "5", "0">>, <<"0", ".", "5", "7">>}
    \cup (IF unit \in {"GiB", "GB"} THEN {} ELSE {<<"1", "0", "0", ".", "0", "0">>})
Units == DOMAIN Multipliers \cup {"B"}
Speeds == {<<>>,
           <<[value |-> <<"5", ".", "0", "0">>, unit |-> "MiB"]>>,
           <<[value |-> <<"7", "5", "0", ".", "5">>, unit |-> "KB"]>>,
           <<[value |-> <<"5", "1", "2", ".", "0", "0">>, unit |-> "B"]>>}
Etas == {<<>>,
         <<[minutes |-> <<"0", "0">>, seconds |-> <<"1", "0">>]>>,
         <<[minutes |-> <<"6", "1">>, seconds |-> <<"0", "5">>]>>}

ProgressLines ==
    UNION {{[tag |-> "[download]", form |-> "progress", pct |-> p, approx |-> x,
             size |-> z, unit |-> u, speed |-> v, eta |-> e] :
              p \in Percentages, x \in BOOLEAN, z \in SizesOf(u), v \in Speeds,
              e \in Etas} :
           u \in Units}

ExampleLine ==
    [tag |-> "[download]", form |-> "progress", pct |-> <<"5", "0", ".", "0">>,
     approx |-> FALSE, size |-> <<"1", "0", "0", ".", "0", "0">>, unit |-> "MiB",
     speed |-> <<[value |-> <<"5", ".", "0", "0">>, unit |-> "MiB"]>>,
     eta |-> <<[minutes |-> <<"0", "0">>, seconds |-> <<"1", "0">>]>>]

OtherLines ==
    {[ExampleLine EXCEPT !.tag = "[info]"],
     [ExampleLine EXCEPT !.form = "destination"]}

InitParse ==
    /\ TaskIdle
    /\ StoreIdle
    /\ MainIdle
    /\ probe \in ProgressLines \cup OtherLines
    /\ answer = <<>>

ApplyParseYtdlpProgress ==
    /\ answer = <<>>
    /\ answer' = <<ParseYtdlpProgress(probe)>>
    /\ UNCHANGED <<mainVars, probe, storeVars, taskVars>>

NextParse == ApplyParseYtdlpProgress

SpecParse == InitParse /\ [][NextParse]_vars

\* the unit table as the powers it stands for
UnitBase(unit) == IF unit \in {"KiB", "MiB", "GiB"} THEN 1024 ELSE 1000
UnitOrder(unit) == CASE unit \in {"KiB", "KB"} -> 1
                     [] unit \in {"MiB", "MB"} -> 2
                     [] unit \in {"GiB", "GB"} -> 3

\* n = floor(num * m / den), with the products kept below 2^31 by splitting m
IsFloorOfProduct(n, x, m) ==
    LET a == m \div x.den
        b == m % x.den
        rest == n - x.num * a
    IN  /\ rest * x.den <= x.num * b
        /\ x.num * b < (rest + 1) * x.den

DirectExtensions ==
   {<<".", "m", "p", "4">>, <<".", "w", "e", "b", "m">>,
    <<".", "m", "k", "v">>, <<".", "a", "v", "i">>, <<".", "m", "o", "v">>,
    <<".", "f", "l", "v">>, <<".", "w", "m", "v">>, <<".", "m", "4", "v">>,
    <<".", "j", "p", "g">>, <<".", "j", "p", "e", "g">>,
    <<".", "p", "n", "g">>, <<".", "g", "i", "f">>,
    <<".", "w", "e", "b", "p">>, <<".", "b", "m", "p">>}

\* sub occurs in str at position i
OccursAt(sub, str, i) ==
    i + Len(sub) - 1 <= Len(str) /\ SubSeq(str, i, i + Len(sub) - 1) = sub
Contains(sub, str) == \E i \in 1..(Len(str) + 1) : OccursAt(sub, str, i)
EndsWith(str, sub) ==
    Len(sub) <= Len(str) /\ OccursAt(sub, str, Len(str) - Len(sub) + 1)

\* str.find(c, from): the first position of c at or after from, 0 for none
Find(str, c, from) ==
    IF \E i \in from..Len(str) : str[i] = c
    THEN CHOOSE i \in from..Len(str) :
           str[i] = c /\ \A j \in from..(i - 1) : str[j] # c
    ELSE 0

\* the first position of a character of cs, Len(str) + 1 for none
FirstOf(str, cs) ==
    IF \E i \in 1..Len(str) : str[i] \in cs
    THEN CHOOSE i \in 1..Len(str) :
           str[i] \in cs /\ \A j \in 1..(i - 1) : str[j] \notin cs
    ELSE Len(str) + 1

\* urlparse(url) for a URL with "scheme://": the network location ends at the
\* first "/", "?" or "#", the fragment starts at the first "#", the query at
\* the first "?", and the parameters at the first ";" of the last path segment
UrlParse(url) ==
    LET rest0   == SubSeq(url, Find(url, ":", 1) + 3, Len(url))
        afterNl == SubSeq(rest0, FirstOf(rest0, {"/", "?", "#"}), Len(rest0))
        noFrag  == SubSeq(afterNl, 1, FirstOf(afterNl, {"#"}) - 1)
        q       == FirstOf(noFrag, {"?"})
        full    == SubSeq(noFrag, 1, q - 1)
        lastSl  == IF \E i \in 1..Len(full) : full[i] = "/"
                   THEN CHOOSE i \in 1..Len(full) :
                          full[i] = "/" /\ \A j \in (i + 1)..Len(full) : full[j] # "/"
                   ELSE 1
        semi    == Find(full, ";", lastSl)
    IN  [path  |-> IF semi = 0 THEN full ELSE SubSeq(full, 1, semi - 1),
         query |-> SubSeq(noFrag, q + 1, Len(noFrag))]

\* the escapes of the URLs of the model
HexPairs == {<<"3", "F">>, <<"3", "f">>, <<"2", "F">>, <<"2", "f">>}
Decoded(pair) == IF pair[1] = "3" THEN "?" ELSE "/"

\* urllib.parse.unquote
RECURSIVE Unquote(_)
Unquote(str) ==
    IF str = <<>> THEN <<>>
    ELSE IF str[1] = "%" /\ Len(str) >= 3 /\ SubSeq(str, 2, 3) \in HexPairs
    THEN <<Decoded(SubSeq(str, 2, 3))>> \o Unquote(SubSeq(str, 4, Len(str)))
    ELSE <<str[1]>> \o Unquote(Tail(str))

\* str.lower()
UpperCase == <<"A", "B", "C", "D", "E", "F", "G", "H", "I", "J", "K", "L">>
    \o <<"M", "N", "O", "P", "Q", "R", "S", "T", "U", "V", "W", "X">>
    \o <<"Y", "Z">>
LowerCase == <<"a", "b", "c", "d", "e", "f", "g", "h", "i", "j", "k", "l">>
    \o <<"m", "n", "o", "p", "q", "r", "s", "t", "u", "v", "w", "x">>
    \o <<"y", "z">>
LowerChar(c) ==
    IF \E i \in 1..26 : UpperCase[i] = c
    THEN LowerCase[CHOOSE i \in 1..26 : UpperCase[i] = c]
    ELSE c
Lower(str) == [i \in 1..Len(str) |-> LowerChar(str[i])]

\* (mutant) the query is not looked at
is_direct_file_url_PathOnly(url) ==
    LET path == Lower(Unquote(UrlParse(url).path))
    IN  \E ext \in DirectExtensions :
          \/ EndsWith(path, ext)
          \/ Contains(ext \o <<"?">>, path)
          \/ Contains(ext \o <<"/">>, path)

is_direct_file_url(url) ==
    LET parsed == UrlParse(url)
        path   == Lower(Unquote(parsed.path))
        query  == Lower(parsed.query)
    IN  \/ \E ext \in DirectExtensions :
             \/ EndsWith(path, ext)
             \/ Contains(ext \o <<"?">>, path)
             \/ Contains(ext \o <<"/">>, path)
        \/ Contains(<<"d", "o", "w", "n", "l", "o", "a", "d", "=">>, query)
        \/ Contains(<<"d", "o", "w", "n", "l", "o", "a", "d", "_", "f", "i", "l", "e", "n", "a", "m", "e", "=">>, query)

\* the URLs: the three examples, and an origin followed by up to three path
\* pieces and a query or a fragment
UrlMp4 ==
    <<"h", "t", "t", "p", "s", ":", "/", "/", "c", "d", "n", ".">>
    \o <<"e", "x", "a", "m", "p", "l", "e", ".", "c", "o", "m", "/">>
    \o <<"a", "/", "b", "/", "v", "i", "d", "e", "o", ".", "m", "p">>
    \o <<"4">>
UrlWatch ==
    <<"h", "t", "t", "p", "s", ":", "/", "/", "e", "x", "a", "m">>
    \o <<"p", "l", "e", ".", "c", "o", "m", "/", "w", "a", "t", "c">>
    \o <<"h", "?", "v", "=", "a", "b", "c">>
UrlHint ==
    <<"h", "t", "t", "p", "s", ":", "/", "/", "c", "d", "n", ".">>
    \o <<"e", "x", "a", "m", "p", "l", "e", ".", "c", "o", "m", "/">>
    \o <<"x", ".", "m", "p", "4", "?", "d", "o", "w", "n", "l", "o">>
    \o <<"a", "d", "_", "f", "i", "l", "e", "n", "a", "m", "e", "=">>
    \o <<"f", "o", "o", ".", "m", "p", "4">>
Origin == <<"h", "t", "t", "p", "s", ":", "/", "/", "h">>
PathPieces ==
   {<<"/", "v">>, <<"/", "a", ".", "b">>, <<".", "m", "p", "4">>,
    <<".", "M", "P", "4">>, <<".", "m", "p", "4", "x">>,
    <<".", "j", "p", "e", "g">>, <<".", "t", "x", "t">>, <<"%", "3", "F">>,
    <<"%", "2", "f">>, <<"/">>, <<";", "p", "=", "1">>}
QueryPieces ==
   {<<>>, <<"?", "v", "=", "a", "b", "c">>,
    <<"?", "d", "o", "w", "n", "l", "o", "a", "d", "=", "1">>,
    <<"?", "D", "O", "W", "N", "L", "O", "A", "D", "_", "F", "I">>
    \o <<"L", "E", "N", "A", "M", "E", "=", "f", ".", "m", "p", "4">>,
    <<"?", "x", "=", "1", "&", "n", "o", "d", "o", "w", "n", "l", "o", "a", "d", "=", "2">>,
    <<"?", "f", "=", "v", "i", "d", "e", "o", ".", "m", "p", "4">>,
    <<"#", "t", ".", "m", "p", "4">>}
ClassifierUrls ==
    {UrlMp4, UrlWatch, UrlHint}
    \cup {Origin \o a \o b \o c \o q :
            a \in PathPieces \cup {<<>>}, b \in PathPieces \cup {<<>>},
            c \in PathPieces, q \in QueryPieces}

InitClassify ==
    /\ TaskIdle
    /\ StoreIdle
    /\ MainIdle
    /\ probe \in ClassifierUrls
    /\ answer = <<>>

ApplyIsDirectFileUrl ==
    /\ answer = <<>>
    /\ answer' = <<is_direct_file_url(probe)>>
    /\ UNCHANGED <<mainVars, probe, storeVars, taskVars>>

NextClassify == ApplyIsDirectFileUrl

SpecClassify == InitClassify /\ [][NextClassify]_vars

\* C27: is_direct_file_url answers direct exactly when the decoded,
\* lower-cased path ends with a known media extension or holds one followed
\* by "?" or "/", or the lower-cased query holds "download=" or
\* "download_filename="; every other URL needs extraction; there is an answer
\* for every URL.  The three example URLs are direct, needs-extraction, direct.
C27_Classifier ==
    answer # <<>> =>
      LET path  == Lower(Unquote(UrlParse(probe).path))
          query == Lower(UrlParse(probe).query)
          byPath ==
            \E ext \in DirectExtensions, i \in 1..Len(path) :
              /\ OccursAt(ext, path, i)
              /\ \/ i + Len(ext) - 1 = Len(path)
                 \/ path[i + Len(ext)] \in {"?", "/"}
          byQuery ==
            \E i \in 1..Len(query) :
              \/ OccursAt(<<"d", "o", "w", "n", "l", "o", "a", "d", "=">>, query, i)
              \/ OccursAt(<<"d", "o", "w", "n", "l", "o", "a", "d", "_">>
                            \o <<"f", "i", "l", "e", "n", "a", "m", "e", "=">>, query, i)
      IN  /\ answer[1] \in BOOLEAN
          /\ answer[1] <=> (byPath \/ byQuery)
          /\ probe = UrlMp4 => answer[1]
          /\ probe = UrlWatch => ~answer[1]
          /\ probe = UrlHint => answer[1]

\* a URL that is direct by its query alone
C27_Witness ==
    /\ answer = <<TRUE>>
    /\ UrlParse(probe).query = <<"d", "o", "w", "n", "l", "o", "a", "d", "=", "1">>
    /\ UrlParse(probe).path = <<"/", "v">>

(***************************************************************************)
(* The yt-dlp command download_video builds (SpecCommand).  A format       *)
(* expression is the sequence of its "/"-separated clauses; a clause is a  *)
(* video selector and, after "+", an audio selector; a selector carries    *)
(* its [height<=N] and [ext=E] filters.                                    *)
(***************************************************************************)
Selector(name, height, ext) == [name |-> name, height |-> height, ext |-> ext]
Clause(video, audio) == [video |-> video, audio |-> audio]

\* "bestvideo[height<=H][ext=mp4]+bestaudio[ext=m4a]/best[height<=H][ext=mp4]/best"
\* (height <<>>: the expression without the [height<=H] filters)
FormatChain(height) ==
    <<Clause(Selector("bestvideo", height, <<"mp4">>),
             <<Selector("bestaudio", <<>>, <<"m4a">>)>>),
      Clause(Selector("best", height, <<"mp4">>), <<>>),
      Clause(Selector("best", <<>>, <<>>), <<>>)>>

\* (mutant) 480p served with the 720p expression
FormatStr_480As720(quality) ==
    CASE quality = "1080p" -> FormatChain(<<1080>>)
      [] quality = "720p"  -> FormatChain(<<720>>)
      [] quality = "480p"  -> FormatChain(<<720>>)
      [] OTHER             -> FormatChain(<<>>)

\* format_str
FormatStr(quality) ==
    CASE quality = "1080p" -> FormatChain(<<1080>>)
      [] quality = "720p"  -> FormatChain(<<720>>)
      [] quality = "480p"  -> FormatChain(<<480>>)
      [] OTHER             -> FormatChain(<<>>)

\* cmd: the format, the output template, the fixed options, the proxy option,
\* the URL
FixedOptions == <<"--no-playlist", "--newline", "--progress", "--progress-template",
                  "--print", "after_move:filepath">>
Command(quality, template, proxy, url) ==
    [format |-> FormatStr(quality), output |-> template, options |-> FixedOptions,
     proxy |-> IF Truthy(proxy) THEN <<proxy>> ELSE <<>>, url |-> url]

\* the calls: quality as task_download passes it (None: JSON null)
Qualities == {"best", "1080p", "720p", "480p", "360p", "2160p", "720P", "", None}
Templates == {"%(title)s.%(ext)s", "clip.%(ext)s"}
CommandCalls ==
    [quality : Qualities, template : Templates, proxy : {None, "", ProxyUrl},
     url : {DirectUrl, PageUrl, FallbackUrl}]

InitCommand ==
    /\ TaskIdle
    /\ StoreIdle
    /\ MainIdle
    /\ probe \in CommandCalls
    /\ answer = <<>>

BuildCommand ==
    /\ answer = <<>>
    /\ answer' = <<Command(probe.quality, probe.template, probe.proxy, probe.url)>>
    /\ UNCHANGED <<mainVars, probe, storeVars, taskVars>>

NextCommand == BuildCommand

SpecCommand == InitCommand /\ [][NextCommand]_vars

\* C28: for 1080p, 720p and 480p the format expression has three clauses; the
\* first is mp4 video capped at that height plus audio, the second mp4 capped
\* at that height, the last the unconstrained 'best'; 'best' and every other
\* quality value give the same chain with no height cap.
C28_QualityFormat ==
    answer # <<>> =>
      LET f == answer[1].format
          cap == CASE probe.quality = "1080p" -> <<1080>>
                   [] probe.quality = "720p"  -> <<720>>
                   [] probe.quality = "480p"  -> <<480>>
                   [] OTHER -> <<>>
      IN  /\ Len(f) = 3
          /\ f[1].video.name = "bestvideo" /\ f[1].video.ext = <<"mp4">>
          /\ f[1].video.height = cap
          /\ Len(f[1].audio) = 1 /\ f[1].audio[1].name = "bestaudio"
          /\ f[2].video.name = "best" /\ f[2].video.ext = <<"mp4">>
          /\ f[2].video.height = cap
          /\ f[2].audio = <<>>
          /\ f[3] = Clause(Selector("best", <<>>, <<>>), <<>>)
          /\ probe.quality \notin {"1080p", "720p", "480p"} =>
               f = FormatStr("best")

\* the 480p expression: capped first clause, uncapped last clause
C28_Witness ==
    /\ answer # <<>>
    /\ probe.quality = "480p"
    /\ answer[1].format[1].video.height = <<480>>
    /\ answer[1].format[3].video.height = <<>>

(***************************************************************************)
(* The file name download_direct_file writes to (SpecFilename).            *)
(***************************************************************************)
\* the characters re.sub(r'[<>:"/\\|?*]', "", filename) removes
IllegalChars == {"<", ">", ":", "\"", "/", "\\", "|", "?", "*"}

\* sanitized[:200] if len(sanitized) > 200 else sanitized
MaxFilenameLen == 200

SanitizeFilename(filename) ==
    LET sanitized == SelectSeq(filename, LAMBDA c : c \notin IllegalChars)
    IN  IF Len(sanitized) > MaxFilenameLen
        THEN SubSeq(sanitized, 1, MaxFilenameLen) ELSE sanitized

\* str.split(sep) for a one-character sep
RECURSIVE Split(_, _)
Split(str, sep) ==
    LET i == Find(str, sep, 1)
    IN  IF i = 0 THEN <<str>>
        ELSE <<SubSeq(str, 1, i - 1)>> \o Split(SubSeq(str, i + 1, Len(str)), sep)

\* parse_qs(query).get(key): <<>>, or <<the first value>>; a pair with a blank
\* value is dropped, the value is percent-decoded
RECURSIVE FirstValue(_, _)
FirstValue(pairs, key) ==
    IF pairs = <<>> THEN <<>>
    ELSE LET eq == Find(pairs[1], "=", 1)
             k  == IF eq = 0 THEN pairs[1] ELSE SubSeq(pairs[1], 1, eq - 1)
             v  == IF eq = 0 THEN <<>> ELSE SubSeq(pairs[1], eq + 1, Len(pairs[1]))
         IN  IF k = key /\ v # <<>> THEN <<Unquote(v)>>
             ELSE FirstValue(Tail(pairs), key)
QueryParam(query, key) == FirstValue(Split(query, "&"), key)

DownloadFilenameKey == <<"d", "o", "w", "n", "l", "o", "a", "d", "_", "f", "i", "l", "e", "n", "a", "m", "e">>
DownloadedFile == <<"d", "o", "w", "n", "l", "o", "a", "d", "e", "d", "_", "f", "i", "l", "e">>
DefaultExtension == <<".", "m", "p", "4">>
OutputDir == <<"/", "d", "a", "t", "a", "/", "S", "t", "a", "s", "h", "D">>
    \o <<"o", "w", "n", "l", "o", "a", "d", "e", "r">>

\* the filename of download_direct_file: filename is <<>> for None, <<name>>
\* for a string
ResolveFilename(filename, url) ==
    LET parsed == UrlParse(url)
        hint   == QueryParam(parsed.query, DownloadFilenameKey)
        last   == Last(Split(parsed.path, "/"))
        path_filename == Head(Split(Unquote(last), "?"))
        chosen == IF filename # <<>> /\ filename[1] # <<>> THEN filename[1]
                  ELSE IF hint # <<>> THEN hint[1]
                  ELSE IF path_filename # <<>> THEN path_filename
                  ELSE DownloadedFile
        clean  == SanitizeFilename(chosen)
    IN  IF \E i \in 1..Len(clean) : clean[i] = "." THEN clean
        ELSE clean \o DefaultExtension

\* output_path = os.path.join(output_dir, filename)
OutputPath(filename, url) == PathJoin(OutputDir, ResolveFilename(filename, url))

\* the calls: a filename argument (none, empty, names, one longer than the
\* limit) and a URL (an origin, a path, a query)
LongName == [i \in 1..(MaxFilenameLen + 5) |-> "a"]
FilenameArgs ==
    {<<>>, <<LongName>>}
    \cup {<<n>> : n \in
   {<<"c", "l", "i", "p", ".", "m", "k", "v">>, <<"a", "/", "b">>,
    <<".", ".">>, <<"?", "?", "?">>, <<>>}}
FilenamePaths ==
   {<<"/", "v">>, <<"/", "a", ".", "b", "/">>, <<"/", "a", "/", ".", ".">>,
    <<"/", "x", ".", "m", "p", "4">>, <<"/", "v", ".">>,
    <<"/", "a", "%", "2", "F", "b", "%", "3", "F", "c">>,
    <<"/", "a", ":", "b">>}
FilenameQueries ==
   {<<>>, <<"?", "v", "=", "a", "b", "c">>,
    <<"?", "d", "o", "w", "n", "l", "o", "a", "d", "_", "f", "i">>
    \o <<"l", "e", "n", "a", "m", "e", "=", "f", ".", "m", "p", "4">>,
    <<"?", "d", "o", "w", "n", "l", "o", "a", "d", "_", "f", "i", "l", "e", "n", "a", "m", "e", "=">>,
    <<"?", "d", "o", "w", "n", "l", "o", "a", "d", "_", "f", "i">>
    \o <<"l", "e", "n", "a", "m", "e", "=", ".", ".">>,
    <<"?", "v", "=", "1", "&", "d", "o", "w", "n", "l", "o", "a">>
    \o <<"d", "_", "f", "i", "l", "e", "n", "a", "m", "e", "=", "a">>
    \o <<"%", "2", "F", "b">>}
FilenameCalls ==
    {[filename |-> f, url |-> Origin \o p \o q] :
       f \in FilenameArgs, p \in FilenamePaths, q \in FilenameQueries}

InitFilename ==
    /\ TaskIdle
    /\ StoreIdle
    /\ MainIdle
    /\ probe \in FilenameCalls
    /\ answer = <<>>

ApplyResolveFilename ==
    /\ answer = <<>>
    /\ answer' = <<[name |-> ResolveFilename(probe.filename, probe.url),
                    path |-> OutputPath(probe.filename, probe.url)]>>
    /\ UNCHANGED <<mainVars, probe, storeVars, taskVars>>

NextFilename == ApplyResolveFilename

SpecFilename == InitFilename /\ [][NextFilename]_vars

\* a "." followed by a character that is no "."
HasExtension(name) ==
    \E i \in 1..(Len(name) - 1) : name[i] = "." /\ name[i + 1] # "."

\* C29: the direct fetcher takes the file name from the filename argument,
\* else from the download_filename query parameter, else from the last
\* segment of the URL path, else 'downloaded_file'; the resolved name holds
\* none of < > : " / \ | ? *, is bounded in length and carries a file
\* extension, and the output path is a file inside output_dir.
C29_FilenameResolution ==
    answer # <<>> =>
      LET name == answer[1].name
          path == answer[1].path
          hint == QueryParam(UrlParse(probe.url).query, DownloadFilenameKey)
          seg  == Unquote(Last(Split(UrlParse(probe.url).path, "/")))
          source ==
            IF probe.filename # <<>> /\ probe.filename[1] # <<>> THEN probe.filename[1]
            ELSE IF hint # <<>> THEN hint[1]
            ELSE IF seg # <<>> /\ seg[1] # "?" THEN Head(Split(seg, "?"))
            ELSE DownloadedFile
          kept == SelectSeq(source, LAMBDA c : c \notin IllegalChars)
          cut == SubSeq(kept, 1, IF Len(kept) < MaxFilenameLen THEN Len(kept)
                                 ELSE MaxFilenameLen)
      IN  /\ name \in {cut, cut \o DefaultExtension}
          /\ \A i \in 1..Len(name) : name[i] \notin IllegalChars
          /\ Len(name) <= MaxFilenameLen + Len(DefaultExtension)
          /\ HasExtension(name)
          /\ DirName(path) = OutputDir
          /\ BaseName(path) = name
          /\ name \notin {<<>>, <<".">>, <<".", ".">>}

\* the part of C29 on the order of the sources, the characters and the length
C29_SourceOrder ==
    answer # <<>> =>
      LET name == answer[1].name
          hint == QueryParam(UrlParse(probe.url).query, DownloadFilenameKey)
      IN  /\ \A i \in 1..Len(name) : name[i] \notin IllegalChars
          /\ Len(name) <= MaxFilenameLen + Len(DefaultExtension)
          /\ name # <<>>
          /\ (probe.filename = <<<<"c", "l", "i", "p", ".", "m", "k", "v">>>>) =>
               name = probe.filename[1]
          /\ (probe.filename \in {<<>>, <<<<>>>>} /\ hint = <<<<"f", ".", "m", "p", "4">>>>) =>
               name = hint[1]

\* the lines among the captured ones that the path-print hook printed
HookLines == {l.text : l \in {x \in OutputLines : x.hook}}
Markers == SelectSeq(stdoutLines, LAMBDA t : t \in HookLines)

\* C30: on exit code 0 download_video returns the path of the last captured
\* marker line when one was captured and that path exists, and the newest
\* entry of output_dir only when none was captured or the captured path does
\* not exist; only lines printed by the path-print hook are captured.
C30_MarkerPath ==
    /\ \A i \in 1..Len(stdoutLines) : stdoutLines[i] \in HookLines
    /\ proc = "exited" =>
         IF Markers # <<>> /\ InDir(dirFiles, Last(Markers))
         THEN filePath = Last(Markers)
         ELSE filePath = (IF dirFiles # <<>> THEN Last(dirFiles) ELSE None)

\* C30 for the lines the code captures (those that start with "/"), whoever
\* printed them
C30_CapturedPath ==
    proc = "exited" =>
      IF stdoutLines # <<>> /\ InDir(dirFiles, Last(stdoutLines))
      THEN filePath = Last(stdoutLines)
      ELSE filePath = (IF dirFiles # <<>> THEN Last(dirFiles) ELSE None)

(***************************************************************************)
(* The read loop of download_video (SpecLines): the subprocess output, a   *)
(* sequence of bytes, arrives in chunks; each chunk is decoded and added   *)
(* to output_buffer, which is cut at line terminators.                     *)
(***************************************************************************)
MaxStreamLen == 4

\* the bytes of a stream: a letter, a blank, the two terminators, and the two
\* bytes 0xC3 0xA9 of one UTF-8 encoded character
CR == "\r"
LF == "\n"
LeadByte == "0xC3"
ContinuationByte == "0xA9"
Bytes == {"a", " ", CR, LF, LeadByte, ContinuationByte}
TwoByteChar == "U+00E9"
ReplacementChar == "U+FFFD"

\* chunk.decode('utf-8', errors='replace'): a lead byte with its continuation
\* byte is one character; a lead byte without it, also at the end of the
\* chunk, and a continuation byte without a lead byte are replaced
RECURSIVE Decode(_)
Decode(chunk) ==
    IF chunk = <<>> THEN <<>>
    ELSE IF chunk[1] = LeadByte
         THEN IF Len(chunk) >= 2 /\ chunk[2] = ContinuationByte
              THEN <<TwoByteChar>> \o Decode(SubSeq(chunk, 3, Len(chunk)))
              ELSE <<ReplacementChar>> \o Decode(Tail(chunk))
         ELSE IF chunk[1] = ContinuationByte
              THEN <<ReplacementChar>> \o Decode(Tail(chunk))
              ELSE <<chunk[1]>> \o Decode(Tail(chunk))

\* str.strip()
Whitespace == {" ", CR, LF}
RECURSIVE Strip(_)
Strip(str) ==
    IF str = <<>> THEN <<>>
    ELSE IF str[1] \in Whitespace THEN Strip(Tail(str))
    ELSE IF str[Len(str)] \in Whitespace THEN Strip(SubSeq(str, 1, Len(str) - 1))
    ELSE str

\* the inner loop: while output_buffer holds a terminator, the text before the
\* first one is a line (delivered when not blank) and the text after it stays
RECURSIVE SplitBuffer(_, _)
SplitBuffer(output_buffer, lines) ==
    LET split_pos == FirstOf(output_buffer, {CR, LF})
        line == Strip(SubSeq(output_buffer, 1, split_pos - 1))
    IN  IF split_pos > Len(output_buffer)
        THEN [output_buffer |-> output_buffer, lines |-> lines]
        ELSE SplitBuffer(SubSeq(output_buffer, split_pos + 1, Len(output_buffer)),
                         IF line = <<>> THEN lines ELSE Append(lines, line))

\* the outer loop over the chunks read until end of stream
RECURSIVE ReadLoop(_, _, _)
ReadLoop(chunks, output_buffer, lines) ==
    IF chunks = <<>> THEN [output_buffer |-> output_buffer, lines |-> lines]
    ELSE LET s == SplitBuffer(output_buffer \o Decode(chunks[1]), lines)
         IN  ReadLoop(Tail(chunks), s.output_buffer, s.lines)

\* the lines delivered for a sequence of chunks
LinesRead(chunks) == ReadLoop(chunks, <<>>, <<>>).lines

\* the chunks of a stream cut after the positions of cuts
RECURSIVE Chunks(_, _, _)
Chunks(stream, cuts, from) ==
    IF from > Len(stream) THEN <<>>
    ELSE LET later == {c \in cuts : c >= from /\ c < Len(stream)}
             to == IF later = {} THEN Len(stream)
                   ELSE CHOOSE c \in later : \A d \in later : c <= d
         IN  <<SubSeq(stream, from, to)>> \o Chunks(stream, cuts, to + 1)

Streams == UNION {[1..n -> Bytes] : n \in 0..MaxStreamLen}
Chunkings ==
    {[stream |-> s, cuts |-> c] : s \in Streams, c \in SUBSET (1..(MaxStreamLen - 1))}

InitLines ==
    /\ TaskIdle
    /\ StoreIdle
    /\ MainIdle
    /\ probe \in {x \in Chunkings : \A c \in x.cuts : c < Len(x.stream)}
    /\ answer = <<>>

ApplyReadLoop ==
    /\ answer = <<>>
    /\ answer' = <<LinesRead(Chunks(probe.stream, probe.cuts, 1))>>
    /\ UNCHANGED <<mainVars, probe, storeVars, taskVars>>

NextLines == ApplyReadLoop

SpecLines == InitLines /\ [][NextLines]_vars

\* C31: the lines delivered do not depend on how the stream is cut into chunks:
\* for every stream and every way of cutting it, they are the lines delivered
\* for the whole stream read as one chunk (so any two ways of cutting it
\* deliver the same lines).
C31_ChunkIndependent ==
    answer # <<>> => answer[1] = LinesRead(<<probe.stream>>)

\* C31 for the streams whose bytes are all below 0x80
C31_AsciiStreams ==
    (/\ answer # <<>>
     /\ \A i \in 1..Len(probe.stream) :
          probe.stream[i] \notin {LeadByte, ContinuationByte}) =>
      answer[1] = LinesRead(<<probe.stream>>)

(***************************************************************************)
(* The end of the subprocess output (Spec).                                *)
(***************************************************************************)
PathLines == {l.text : l \in {x \in OutputLines : x.kind = "path"}}

\* C32: when the exit code is examined every line the tool printed has been
\* processed, the last one included, with or without a terminator: a path
\* line printed last is the last captured line.
C32_LastLineProcessed ==
    (proc \in {"exited", "failed"} /\ outputTail \in PathLines) =>
      (stdoutLines # <<>> /\ Last(stdoutLines) = outputTail)

(***************************************************************************)
(* The order of the strategies in one invocation (Spec).                   *)
(***************************************************************************)
EventsOf(op) == {i \in 1..Len(ioLog) : ioLog[i].op = op}
DirectSucceeded ==
    EventsOf("GET") # {} /\ ~directFailed /\ pc \notin {"task_direct", "direct_stream"}

\* C33: one invocation makes at most one direct attempt and at most one
\* extraction attempt, never both at a time, in the order direct attempt,
\* extraction attempt, result write; neither is retried, and after a
\* successful direct fetch the extraction tool is not started.
C33_SequentialOnce ==
    /\ Cardinality(EventsOf("GET")) <= 1
    /\ Cardinality(EventsOf("yt-dlp")) <= 1
    /\ EventsOf("GET") \subseteq {1}
    /\ EventsOf("yt-dlp") \subseteq {Len(ioLog)}
    /\ pc \in {"task_direct", "direct_stream"} => proc = "none"
    /\ proc # "none" => directFailed \/ EventsOf("GET") = {}
    /\ Len(resultLog) <= 1
    /\ resultLog # <<>> => pc \in {"write_output", "done"}
    /\ DirectSucceeded => \A i \in 1..Len(ioLog) : ioLog[i].op = "GET"

\* a failed direct fetch was followed by the extraction attempt and the
\* result record was written
C33_Witness ==
    /\ EventsOf("GET") # {}
    /\ EventsOf("yt-dlp") # {}
    /\ directFailed
    /\ resultLog # <<>>
    /\ pc = "done"

(***************************************************************************)
(* The availability check of the extraction tool (Spec).                   *)
(***************************************************************************)
\* check_ytdlp returned False: the handler's result is the tool-unavailable
\* failure
ReportedUnavailable == result # <<>> /\ result[1] = ToolUnavailable

\* C34: the installer runs at most once, and only right after a version check
\* that found no binary; a version check that timed out or exited non-zero is
\* followed by nothing; the download subprocess is spawned only right after a
\* version check that exited 0, and download_video is entered only after
\* one; when the tool is reported unavailable the result is the
\* tool-unavailable failure and no download subprocess was spawned.
C34_CheckYtdlp ==
    /\ Cardinality(EventsOf("pip install")) <= 1
    /\ \A i \in EventsOf("pip install") :
         /\ i > 1
         /\ ioLog[i - 1].op = "yt-dlp --version"
         /\ ioLog[i - 1].outcome = "missing"
         /\ \A j \in 1..(i - 2) : ioLog[j].op = "GET"
    /\ \A i \in EventsOf("yt-dlp --version") :
         ioLog[i].outcome \in {"timeout", "nonzero"} =>
           /\ i = Len(ioLog)
           /\ pc \in {"write_output", "done"}
           /\ ReportedUnavailable
    /\ \A i \in EventsOf("yt-dlp") :
         /\ i > 1
         /\ ioLog[i - 1].op = "yt-dlp --version"
         /\ ioLog[i - 1].outcome = "ok"
    /\ dvStart >= 0 =>
         \E i \in EventsOf("yt-dlp --version") :
           /\ ioLog[i].outcome = "ok"
           /\ \A j \in (i + 1)..Len(ioLog) : ioLog[j].op = "yt-dlp"
    /\ ReportedUnavailable => (EventsOf("yt-dlp") = {} /\ proc = "none")

\* the binary was missing, the installer ran, the second version check
\* failed, and the invocation ended with the tool-unavailable failure
C34_Witness ==
    /\ EventsOf("pip install") # {}
    /\ ioLog[Len(ioLog)].op = "yt-dlp --version"
    /\ ioLog[Len(ioLog)].outcome = "nonzero"
    /\ ReportedUnavailable
    /\ pc = "done"

(***************************************************************************)
(* read_result applied to a stored record (SpecRead): task_read_result     *)
(* from load_result on, then write_output.                                 *)
(***************************************************************************)
\* the records a file of the store may hold: every choice of these fields
StoredRecords ==
    {Opt("result_error", a) @@ Opt("error", b) @@ Opt("task_error", c)
       @@ Opt("success", d) @@ Opt("retrieved", e) @@ Opt("status", f)
       @@ Opt("file_path", g) :
       a \in {<<>>, <<"Download failed">>}, b \in {<<>>, <<"spawn failed">>},
       c \in {<<>>, <<"stored task_error">>}, d \in {<<>>, <<TRUE>>, <<FALSE>>},
       e \in {<<>>, <<FALSE>>}, f \in {<<>>, <<"error">>, <<"complete">>},
       g \in {<<>>, <<ToolFile>>}}

StoreWith(id, data) == [k \in StoreKeys |-> IF k = id THEN <<data>> ELSE <<>>]

InitRead ==
    /\ TaskIdle
    /\ StoreIdle
    /\ MainIdle
    /\ probe \in StoredRecords
    /\ answer = <<>>

ApplyReadResult ==
    /\ answer = <<>>
    /\ answer' = <<WrittenDocument(ReadResult(StoreWith("r1", probe), "r1"))>>
    /\ UNCHANGED <<mainVars, probe, storeVars, taskVars>>

NextRead == ApplyReadResult

SpecRead == InitRead /\ [][NextRead]_vars

RenamedFields == {"result_error", "error"}

ExpectedResult ==
    IF args.url = None THEN FailureResult("No URL provided")
    ELSE IF DirectSucceeded THEN SuccessResult(DirectFile)
    ELSE IF dvStart < 0 THEN ToolUnavailable
    ELSE IF filePath # None THEN SuccessResult(filePath)
    ELSE FailureResult("Download failed")

\* C36: a write to the store that fails raises nothing and changes nothing but
\* the store: an invocation that returns has the result and the envelope that
\* follow from the outcome of the download, whether its writes succeeded or
\* failed, and hands the same record to save_result.
C36_SaveFailureKeepsFlow ==
    (pc = "done" /\ exitCode = 0) =>
      /\ result = <<ExpectedResult>>
      /\ envelope = <<WrittenDocument(ExpectedResult)>>
      /\ resultLog = IF Truthy(args.result_id) THEN <<ExpectedResult>> ELSE <<>>

\* a download succeeded while neither its progress records nor its result
\* record could be written
C36_Witness ==
    /\ ~storeWritable
    /\ store = [k \in StoreKeys |-> <<>>]
    /\ pc = "done"
    /\ exitCode = 0
    /\ Len(progressLog) >= 2
    /\ resultLog # <<>>
    /\ result[1].success
    /\ "output" \in DOMAIN envelope[1]

(***************************************************************************)
(* The fields of the progress records (Spec).                              *)
(***************************************************************************)
ProgressFields == {"status", "percentage", "downloaded_bytes", "total_bytes",
                   "last_updated"}

\* C37: every progress record written carries status, percentage,
\* downloaded_bytes, total_bytes and last_updated, whatever its status.
C37_ProgressFields ==
    \A i \in 1..Len(progressLog) : ProgressFields \subseteq DOMAIN progressLog[i]

\* C37 for the fields every write does carry
C37_StatusAndTimestamp ==
    \A i \in 1..Len(progressLog) :
      /\ {"status", "last_updated"} \subseteq DOMAIN progressLog[i]
      /\ progressLog[i].status \in {"starting", "downloading", "complete", "error"}
      /\ progressLog[i].status = "starting" => ProgressFields \subseteq DOMAIN progressLog[i]

(***************************************************************************)
(* Ids and the files of the store (SpecPath).                              *)
(***************************************************************************)
\* C38: two ids that differ as strings never have the same file:
\* get_result_path of an id differs from get_result_path of every other id.
C38_DistinctIdsDistinctFiles ==
    answer # <<>> =>
      \A other \in AllIds : other # probe => GetResultPath(other) # answer[1]

\* C38 for ids made of letters, digits, "_" and "-" only
C38_SafeIds ==
    (answer # <<>> /\ OnlySafe(probe) = probe) =>
      \A other \in AllIds :
        (other # probe /\ OnlySafe(other) = other) => GetResultPath(other) # answer[1]

(***************************************************************************)
(* The order of the statuses written by one invocation (Spec).             *)
(***************************************************************************)
\* C39: once a 'downloading' record has been written, no later write of the
\* invocation has status 'starting'.
C39_StatusNeverBackwards ==
    \A i \in 1..Len(progressLog) : \A j \in (i + 1)..Len(progressLog) :
      progressLog[i].status = "downloading" => progressLog[j].status # "starting"

\* C39 for an invocation in which the direct fetch did not fail
C39_WithoutFallback ==
    ~directFailed => C39_StatusNeverBackwards

(***************************************************************************)
(* The order of the last writes of an invocation served by download_video  *)
(* (Spec).                                                                 *)
(***************************************************************************)
ServedByDownloadVideo ==
    dvStart >= 0 /\ Truthy(args.progress_id) /\ Truthy(args.result_id)

\* C40: with a progress_id and a result_id, the terminal progress record is
\* written before the result record and the result record before the
\* envelope: from the write of the result record on the last progress record
\* written is 'complete' or 'error', an envelope of a returning invocation is
\* never written without the result record, and whenever the store holds the
\* result record it holds a terminal progress record.
C40_WriteOrder ==
    ServedByDownloadVideo =>
      /\ resultLog # <<>> =>
           /\ progressLog # <<>>
           /\ Last(progressLog).status \in {"complete", "error"}
      /\ (envelope # <<>> /\ exitCode = 0) => resultLog # <<>>
      /\ resultLog # <<>> => envelope = <<>> \/ pc = "done"
      /\ store[args.result_id] # <<>> =>
           /\ store[ProgressKey(args.progress_id)] # <<>>
           /\ store[ProgressKey(args.progress_id)][1].status \in {"complete", "error"}

\* a download through yt-dlp ended with the 'complete' record, the result
\* record and the envelope written, both records in the store
C40_Witness ==
    /\ ServedByDownloadVideo
    /\ pc = "done"
    /\ Len(progressLog) >= 3
    /\ Last(progressLog).status = "complete"
    /\ store[args.result_id] = <<SuccessResult(ToolFile)>>
    /\ envelope # <<>>

====
